---- MODULE Spec2Model ----
(***************************************************************************)
(* Clara: the conversational scheduling core of the TypeScript backend.    *)
(*   CommandParser      (services/command-parser.ts)                       *)
(*   ValidationLayer    (services/validation-layer.ts)                     *)
(*   SessionManager     (services/session-manager.ts)                      *)
(*   MessageProcessor   (services/message-processor.ts)                    *)
(* Instants are minutes since midnight of day 0 (a Monday); the process    *)
(* runs in UTC.  A message is a sequence of words, a word a sequence of    *)
(* one-character strings.                                                  *)
(***************************************************************************)
EXTENDS Integers, Sequences, FiniteSets, TLC

VARIABLES
    now,            \* wall clock (new Date()), minutes
    psychologists,  \* table psychologists: id -> row
    availabilityBlocks, \* table availability_blocks
    patients,       \* table patients
    sessions,       \* table sessions
    messageLog,     \* table message_logs (distinct rows, content elided)
    redis,          \* conversation:<number> -> entry with TTL deadline
    inflight,       \* processMessage calls suspended between two awaits
    result,         \* ProcessingResult of the call that returned last
    call,           \* the call that returned last: its input and what it loaded
    faulted,        \* calls so far during which a collaborator operation failed
    router,         \* WhatsAppMessageRouter: its queue, its timers, what it sent
    wa,             \* the Go WhatsApp client: its connection and reconnect loops
    nlp             \* the Go NLP service: the Process call that returned last

vars == <<now, psychologists, availabilityBlocks, patients, sessions,
          messageLog, redis, inflight, result, call, faulted, router, wa, nlp>>

----------------------------------------------------------------------------
(* Bounds of the model *)

MaxSessions == 3      \* rows the sessions table may hold (one is psy2's)
MaxTicks == 2         \* clock ticks taken
MaxInflight == 2      \* overlapping processMessage calls (concurrent runs)
MaxFaults == 1        \* calls during which a collaborator operation fails

(* Program constants *)

defaultExpirySeconds == 300
LookbackMinutes == 60
FallbackDuration == 50
MinutesPerDay == 1440

NowStart == 597
TickStep == 3

NULL == [null |-> TRUE]

----------------------------------------------------------------------------
(* Text *)

UpperLetters == <<"A","B","C","D","E","F","G","H","I","J","K","L","M",
                  "N","O","P","Q","R","S","T","U","V","W","X","Y","Z">>
LowerLetters == <<"a","b","c","d","e","f","g","h","i","j","k","l","m",
                  "n","o","p","q","r","s","t","u","v","w","x","y","z">>
Digits == <<"0","1","2","3","4","5","6","7","8","9">>

\* the character tables as sets and as maps, built once
UpperSet == {UpperLetters[i] : i \in 1..26}
LowerSet == {LowerLetters[i] : i \in 1..26}
DigitSet == {Digits[i] : i \in 1..10}
LowerOf == [c \in UpperSet |-> LowerLetters[CHOOSE i \in 1..26 : UpperLetters[i] = c]]
UpperOf == [c \in LowerSet |-> UpperLetters[CHOOSE i \in 1..26 : LowerLetters[i] = c]]
ValueOf == [c \in DigitSet |-> (CHOOSE i \in 1..10 : Digits[i] = c) - 1]

IsUpper(c) == c \in UpperSet
IsLower(c) == c \in LowerSet
IsDigit(c) == c \in DigitSet
DigitVal(c) == ValueOf[c]

toLowerChar(c) == IF IsUpper(c) THEN LowerOf[c] ELSE c
toUpperChar(c) == IF IsLower(c) THEN UpperOf[c] ELSE c

toLowerCase(w) == [i \in 1..Len(w) |-> toLowerChar(w[i])]

\* String.prototype.includes on one word
includes(w, p) == \E i \in 0..(Len(w) - Len(p)) : SubSeq(w, i + 1, i + Len(p)) = p

Min(S) == CHOOSE x \in S : \A y \in S : x <= y

IndexOf(w, c) == CHOOSE i \in 1..Len(w) : w[i] = c /\ \A j \in 1..(i - 1) : w[j] # c

\* lowercases every word of the message (the model's alphabet has no accents)
normalizeMessage(message) == [k \in 1..Len(message) |-> toLowerCase(message[k])]

\* title-case of one captured name word
normalizeName(w) ==
    [i \in 1..Len(w) |-> IF i = 1 THEN toUpperChar(w[i]) ELSE toLowerChar(w[i])]

\* parseInt of a digit string
RECURSIVE parseInt(_)
parseInt(ds) ==
    IF Len(ds) = 0 THEN 0
    ELSE 10 * parseInt(SubSeq(ds, 1, Len(ds) - 1)) + DigitVal(ds[Len(ds)])

W_agendar == <<"a","g","e","n","d","a","r">>
W_marcar == <<"m","a","r","c","a","r">>
W_cancelar == <<"c","a","n","c","e","l","a","r">>
W_desmarcar == <<"d","e","s","m","a","r","c","a","r">>
W_hoje == <<"h","o","j","e">>
W_amanha == <<"a","m","a","n","h","a">>
W_semana == <<"s","e","m","a","n","a">>
W_ajuda == <<"a","j","u","d","a">>
W_help == <<"h","e","l","p">>
W_comandos == <<"c","o","m","a","n","d","o","s">>
W_sim == <<"s","i","m">>
W_SIM == <<"S","I","M">>
W_nao == <<"n","a","o">>
W_ok == <<"o","k">>
W_s == <<"s">>
W_y == <<"y">>
W_yes == <<"y","e","s">>
W_confirmar == <<"c","o","n","f","i","r","m","a","r">>
W_confirmo == <<"c","o","n","f","i","r","m","o">>
W_confirma == <<"c","o","n","f","i","r","m","a">>
W_Ana == <<"A","n","a">>
W_Anna == <<"A","n","n","a">>
W_Bia == <<"B","i","a">>
W_10h == <<"1","0","h">>
W_1050 == <<"1","0",":","5","0">>
W_1120 == <<"1","1",":","2","0">>
W_14h == <<"1","4","h">>
W_9h == <<"9","h">>
W_ver == <<"v","e","r">>
W_agenda == <<"a","g","e","n","d","a">>

----------------------------------------------------------------------------
(* CommandParser *)

Has(r, f) == f \in DOMAIN r

\* Date.getDay(): 0 = Sunday; day 0 of the model is a Monday
getDay(datetime) == ((datetime \div MinutesPerDay) + 1) % 7

ScheduleVerbs == {W_agendar, W_marcar}
CancelVerbs == {W_cancelar, W_desmarcar}

\* the character class [a-z...]+ of the name capture group
IsNameWord(w) == Len(w) > 0 /\ \A i \in 1..Len(w) : IsLower(w[i])

\* (\d{1,2})(?::(\d{2}))?(?:h)?(?:oras)? at the start of a word
IsTimeWord(w) == Len(w) > 0 /\ IsDigit(w[1])
hourDigits(w) == IF Len(w) >= 2 /\ IsDigit(w[2]) THEN 2 ELSE 1
hasMinutes(w) ==
    LET n == hourDigits(w)
    IN  Len(w) >= n + 3 /\ w[n + 1] = ":" /\ IsDigit(w[n + 2]) /\ IsDigit(w[n + 3])
timeGroup(w) == SubSeq(w, 1, hourDigits(w))
minutesGroup(w) ==
    IF hasMinutes(w) THEN SubSeq(w, hourDigits(w) + 2, hourDigits(w) + 3) ELSE <<>>

W_segunda == <<"s","e","g","u","n","d","a">>
W_seg == <<"s","e","g">>
W_terca == <<"t","e","r","c","a">>
W_ter == <<"t","e","r">>
W_quarta == <<"q","u","a","r","t","a">>
W_qua == <<"q","u","a">>
W_quinta == <<"q","u","i","n","t","a">>
W_qui == <<"q","u","i">>
W_sexta == <<"s","e","x","t","a">>
W_sex == <<"s","e","x">>
W_sabado == <<"s","a","b","a","d","o">>
W_sab == <<"s","a","b">>
W_domingo == <<"d","o","m","i","n","g","o">>
W_dom == <<"d","o","m">>

\* the unaccented keys of weekdayMap with their Date.getDay() numbers
weekdayMap ==
    {<<W_segunda, 1>>, <<W_seg, 1>>, <<W_terca, 2>>, <<W_ter, 2>>, <<W_quarta, 3>>,
     <<W_qua, 3>>, <<W_quinta, 4>>, <<W_qui, 4>>, <<W_sexta, 5>>, <<W_sex, 5>>,
     <<W_sabado, 6>>, <<W_sab, 6>>, <<W_domingo, 0>>, <<W_dom, 0>>}

isWeekday(text) == \E e \in weekdayMap : includes(text, e[1])

\* variant: only a weekday already past this week rolls into the next one
getNextWeekday_sameDay(weekdayText, t) ==
    LET keys == {e \in weekdayMap : e[1] = weekdayText}
    IN  IF keys = {} THEN <<>>
        ELSE LET targetDay == (CHOOSE e \in keys : TRUE)[2]
                 currentDay == getDay(t)
                 daysUntilTarget == IF targetDay - currentDay < 0
                                    THEN targetDay - currentDay + 7
                                    ELSE targetDay - currentDay
             IN  <<(t - (t % MinutesPerDay)) + daysUntilTarget * MinutesPerDay>>

\* <<date>>, or <<>> when the text is no key of the map (the throw)
getNextWeekday(weekdayText, t) ==
    LET keys == {e \in weekdayMap : e[1] = weekdayText}
    IN  IF keys = {} THEN <<>>
        ELSE LET targetDay == (CHOOSE e \in keys : TRUE)[2]
                 currentDay == getDay(t)
                 daysUntilTarget == IF targetDay - currentDay <= 0
                                    THEN targetDay - currentDay + 7
                                    ELSE targetDay - currentDay
             IN  <<(t - (t % MinutesPerDay)) + daysUntilTarget * MinutesPerDay>>

\* days before the first of each month; day 0 of the model is 1 January of
\* a year of 365 days
daysBeforeMonth == <<0, 31, 59, 90, 120, 151, 181, 212, 243, 273, 304, 334>>

\* new Date(year, month, day) of the current year, in minutes; a day or a
\* month out of range rolls over
newDate(month, day) ==
    (365 * (month \div 12) + daysBeforeMonth[(month % 12) + 1] + (day - 1)) * MinutesPerDay

InvalidDate == "Invalid Date"

\* days of each month of a year of 365 days
daysInMonth == <<31, 28, 31, 30, 31, 30, 31, 31, 30, 31, 30, 31>>

\* variant: a date that is not on the calendar is left undefined
parseDateTime_calendarOnly(dateRef, time, minutes, t) ==
    LET today == t - (t % MinutesPerDay)
        hour == parseInt(time)
        minute == IF minutes # <<>> THEN parseInt(minutes) ELSE 0
        offset == IF time # <<>> THEN hour * 60 + minute ELSE 0
        isNumber == \A i \in 1..Len(time) : IsDigit(time[i])
        setHours(date) == IF time # <<>> /\ ~isNumber THEN <<InvalidDate>>
                          ELSE <<date + offset>>
    IN  IF dateRef = <<>> THEN <<>>
        ELSE IF isWeekday(dateRef) THEN
            LET targetDate == getNextWeekday(dateRef, t)
            IN  IF targetDate = <<>> THEN <<>> ELSE setHours(targetDate[1])
        ELSE IF dateRef = W_hoje THEN setHours(today)
        ELSE IF dateRef = W_amanha THEN setHours(today + MinutesPerDay)
        ELSE IF includes(dateRef, <<"/">>) THEN
            LET k == IndexOf(dateRef, "/")
                day == parseInt(SubSeq(dateRef, 1, k - 1))
                month == parseInt(SubSeq(dateRef, k + 1, Len(dateRef))) - 1
            IN  IF k = 1 \/ k = Len(dateRef) THEN <<>>
                ELSE IF month \notin 0..11 THEN <<>>
                ELSE IF day \notin 1..daysInMonth[month + 1] THEN <<>>
                ELSE setHours(newDate(month, day))
        ELSE <<>>

\* parseDateTime: <<>> for undefined, <<date>> for a Date; time = <<>> when
\* the pattern has no time group.  setHours with a time that is no number
\* gives the Invalid Date.
parseDateTime(dateRef, time, minutes, t) ==
    LET today == t - (t % MinutesPerDay)
        hour == parseInt(time)
        minute == IF minutes # <<>> THEN parseInt(minutes) ELSE 0
        offset == IF time # <<>> THEN hour * 60 + minute ELSE 0
        isNumber == \A i \in 1..Len(time) : IsDigit(time[i])
        setHours(date) == IF time # <<>> /\ ~isNumber THEN <<InvalidDate>>
                          ELSE <<date + offset>>
    IN  IF dateRef = <<>> THEN <<>>
        ELSE IF isWeekday(dateRef) THEN
            LET targetDate == getNextWeekday(dateRef, t)
            IN  IF targetDate = <<>> THEN <<>> ELSE setHours(targetDate[1])
        ELSE IF dateRef = W_hoje THEN setHours(today)
        ELSE IF dateRef = W_amanha THEN setHours(today + MinutesPerDay)
        ELSE IF includes(dateRef, <<"/">>) THEN
            LET k == IndexOf(dateRef, "/")
                day == parseInt(SubSeq(dateRef, 1, k - 1))
                month == parseInt(SubSeq(dateRef, k + 1, Len(dateRef))) - 1
            IN  IF k = 1 \/ k = Len(dateRef) THEN <<>> ELSE setHours(newDate(month, day))
        ELSE <<>>

\* \d{1,2}\/\d{1,2} as a whole word (the optional year is not modelled)
IsDateWord(w) ==
    \E k \in 2..3 :
        /\ Len(w) \in (k + 1)..(k + 2)
        /\ w[k] = "/"
        /\ \A i \in 1..Len(w) : i # k => IsDigit(w[i])

W_na == <<"n","a">>
W_feira == <<"f","e","i","r","a">>

\* "agendar Ana quinta 14h", "marcar Joao na segunda feira 10:30": verb, name,
\* an optional "na", the weekday, an optional "feira", time (the optional
\* accented words of the pattern cannot occur in the accent-stripped text)
scheduleWeekdayAt(n, i) == IF Len(n) >= i + 2 /\ n[i + 2] = W_na THEN i + 3 ELSE i + 2

scheduleWeekdayTimeAt(n, i) ==
    IF Len(n) >= scheduleWeekdayAt(n, i) + 1 /\ n[scheduleWeekdayAt(n, i) + 1] = W_feira
    THEN scheduleWeekdayAt(n, i) + 2 ELSE scheduleWeekdayAt(n, i) + 1

scheduleWeekdayMatchAt(n) ==
    {i \in 1..(Len(n) - 3) :
        /\ n[i] \in ScheduleVerbs
        /\ IsNameWord(n[i + 1])
        /\ n[i + 1] # W_na
        /\ scheduleWeekdayTimeAt(n, i) <= Len(n)
        /\ \E e \in weekdayMap : e[1] = n[scheduleWeekdayAt(n, i)]
        /\ IsTimeWord(n[scheduleWeekdayTimeAt(n, i)])}

\* schedule pattern "agendar Ana hoje 15h" / "marcar Joao amanha 9:30":
\* verb, name, (hoje|amanha), time.  Positions of the first match.
scheduleMatchAt(n) ==
    {i \in 1..(Len(n) - 3) :
        /\ n[i] \in ScheduleVerbs
        /\ IsNameWord(n[i + 1])
        /\ n[i + 2] \in {W_hoje, W_amanha}
        /\ IsTimeWord(n[i + 3])}

\* cancel pattern "cancelar Ana hoje": the pattern's literal is (hoje|amanhã)
\* and is matched against the accent-stripped text, so only hoje can match
cancelMatchAt(n) ==
    {i \in 1..(Len(n) - 2) :
        /\ n[i] \in CancelVerbs
        /\ IsNameWord(n[i + 1])
        /\ n[i + 2] = W_hoje}

\* view patterns: (mostrar|ver|exibir) (agenda|semana|dia), and the
\* all-optional-prefix pattern that matches any text containing semana or hoje
viewMatches(n) ==
    \/ \E i \in 1..(Len(n) - 1) : n[i] = W_ver /\ n[i + 1] \in {W_agenda, W_semana}
    \/ \E i \in 1..Len(n) : includes(n[i], W_semana) \/ includes(n[i], W_hoje)

helpMatches(n) ==
    \E i \in 1..Len(n) : \E p \in {W_ajuda, W_help, W_comandos} : includes(n[i], p)

extractTimeframe(text) ==
    LET lowerText == normalizeMessage(text)
        has(p) == \E i \in 1..Len(lowerText) : includes(lowerText[i], p)
    IN  IF has(W_semana) THEN "week"
        ELSE IF has(<<"m","e","s">>) THEN "month"
        ELSE IF has(W_hoje) \/ has(<<"d","i","a">>) THEN "day"
        ELSE "week"

\* schedule pattern "agendar Ana 23/01 14h": verb, name, date, time
scheduleDateMatchAt(n) ==
    {i \in 1..(Len(n) - 3) :
        /\ n[i] \in ScheduleVerbs
        /\ IsNameWord(n[i + 1])
        /\ IsDateWord(n[i + 2])
        /\ IsTimeWord(n[i + 3])}

\* cancel pattern "cancelar Ana 23/01"
cancelDateMatchAt(n) ==
    {i \in 1..(Len(n) - 2) :
        /\ n[i] \in CancelVerbs
        /\ IsNameWord(n[i + 1])
        /\ IsDateWord(n[i + 2])}

W_bloquear == <<"b","l","o","q","u","e","a","r">>
W_tarde == <<"t","a","r","d","e">>
W_noite == <<"n","o","i","t","e">>

\* the words of the text joined by single spaces
RECURSIVE Join(_)
Join(words) ==
    IF Len(words) = 0 THEN <<>>
    ELSE IF Len(words) = 1 THEN words[1]
    ELSE words[1] \o <<" ">> \o Join(Tail(words))

StartsAt(text, pos, w) ==
    pos + Len(w) - 1 <= Len(text) /\ SubSeq(text, pos, pos + Len(w) - 1) = w

\* the weekday alternatives of the block pattern in the pattern's order;
\* the accented ones never occur in the accent-stripped text
blockWeekdays ==
    <<W_segunda, W_quarta, W_quinta, W_sexta, W_domingo, W_seg, W_ter, W_qua, W_qui,
      W_sex, W_dom>>

\* where the weekday group starts for a match at pos: after "bloquear ",
\* and after "na " when it follows
blockWeekdayAt(text, pos) ==
    IF StartsAt(text, pos + Len(W_bloquear) + 1, W_na \o <<" ">>)
    THEN pos + Len(W_bloquear) + 1 + Len(W_na) + 1
    ELSE pos + Len(W_bloquear) + 1

\* block pattern "bloquear quinta tarde".  The "nao atender" verb and the
\* second pattern ("bloquear hoje 14h as 16h") hold accented literals and
\* never match the accent-stripped text.
blockMatchAt(text) ==
    {pos \in 1..Len(text) :
        /\ StartsAt(text, pos, W_bloquear \o <<" ">>)
        /\ \E k \in 1..Len(blockWeekdays) :
              StartsAt(text, blockWeekdayAt(text, pos), blockWeekdays[k])}

\* groups 1 and 2 of the block match at pos: the weekday, and the period
\* (<<>> when the optional group did not take part)
blockGroups(text, pos) ==
    LET q == blockWeekdayAt(text, pos)
        k == Min({x \in 1..Len(blockWeekdays) : StartsAt(text, q, blockWeekdays[x])})
        r == q + Len(blockWeekdays[k])
        afterFeira == IF StartsAt(text, r, <<" ">> \o W_feira) THEN r + 1 + Len(W_feira)
                      ELSE IF StartsAt(text, r, W_feira) THEN r + Len(W_feira)
                      ELSE r
        afterSpace == IF StartsAt(text, afterFeira, <<" ">>) THEN afterFeira + 1
                      ELSE afterFeira
    IN  [weekday |-> blockWeekdays[k],
         period |-> IF StartsAt(text, afterSpace, W_tarde) THEN W_tarde
                    ELSE IF StartsAt(text, afterSpace, W_noite) THEN W_noite
                    ELSE <<>>]

\* CommandParser.parse: first matching pattern of the ordered groups
\* schedule, cancel, view, block, help.  Confidence is in hundredths; a
\* command whose datetime is undefined has no datetime field.
parse(message, t) ==
    LET schedule(patient, datetime) ==
            IF datetime # <<>>
            THEN [action |-> "schedule", patient |-> patient,
                  datetime |-> datetime[1], confidence |-> 90]
            ELSE [action |-> "schedule", patient |-> patient, confidence |-> 30]
        cancel(patient, datetime) ==
            IF datetime # <<>>
            THEN [action |-> "cancel", patient |-> patient,
                  datetime |-> datetime[1], confidence |-> 85]
            ELSE [action |-> "cancel", patient |-> patient, confidence |-> 30]
        block(datetime) ==
            IF datetime # <<>>
            THEN [action |-> "block", datetime |-> datetime[1], confidence |-> 80]
            ELSE [action |-> "block", confidence |-> 30]
        scheduleAt(n, i) ==
            schedule(normalizeName(n[i + 1]),
                     parseDateTime(n[i + 2], timeGroup(n[i + 3]), minutesGroup(n[i + 3]), t))
        cancelAt(n, i) ==
            cancel(normalizeName(n[i + 1]), parseDateTime(n[i + 2], <<>>, <<>>, t))
        scheduleWeekday(n, i, time) ==
            schedule(normalizeName(n[i + 1]),
                     parseDateTime(n[scheduleWeekdayAt(n, i)], timeGroup(time),
                                   minutesGroup(time), t))
        blockOf(groups) == block(parseDateTime(groups.weekday, groups.period, <<>>, t))
        blockIn(text) == blockOf(blockGroups(text, Min(blockMatchAt(text))))
        match(n) ==
            IF scheduleWeekdayMatchAt(n) # {}
            THEN scheduleWeekday(n, Min(scheduleWeekdayMatchAt(n)),
                     n[scheduleWeekdayTimeAt(n, Min(scheduleWeekdayMatchAt(n)))])
            ELSE IF scheduleMatchAt(n) # {} THEN scheduleAt(n, Min(scheduleMatchAt(n)))
            ELSE IF scheduleDateMatchAt(n) # {}
                 THEN scheduleAt(n, Min(scheduleDateMatchAt(n)))
            ELSE IF cancelMatchAt(n) # {} THEN cancelAt(n, Min(cancelMatchAt(n)))
            ELSE IF cancelDateMatchAt(n) # {} THEN cancelAt(n, Min(cancelDateMatchAt(n)))
            ELSE IF viewMatches(n) THEN
                [action |-> "view", timeframe |-> extractTimeframe(message),
                 confidence |-> 95]
            ELSE IF blockMatchAt(Join(n)) # {} THEN blockIn(Join(n))
            ELSE IF helpMatches(n) THEN [action |-> "help", confidence |-> 100]
            ELSE [action |-> "unknown", confidence |-> 0]
    IN  match(normalizeMessage(message))

----------------------------------------------------------------------------
(* ValidationLayer *)

W_closed == <<"c","l","o","s","e","d">>
W_1000_1300 == <<"1","0",":","0","0","-","1","3",":","0","0">>

\* "HH:MM".split(':').map(Number) folded into minutes since midnight
hhmmToMinutes(w) ==
    LET k == IndexOf(w, ":")
    IN  parseInt(SubSeq(w, 1, k - 1)) * 60 + parseInt(SubSeq(w, k + 1, Len(w)))

getDayName(dayOfWeek) == <<"dom", "seg", "ter", "qua", "qui", "sex", "sab">>[dayOfWeek + 1]

W_0930_1215 == <<"0","9",":","3","0","-","1","2",":","1","5">>

\* variant: the closing minute itself is accepted
isWithinWorkingHours_closedEnd(datetime, workingHours) ==
    LET dayName == getDayName(getDay(datetime))
    IN  IF ~Has(workingHours, dayName) \/ workingHours[dayName] = W_closed THEN FALSE
        ELSE LET dayWorkingHours == workingHours[dayName]
                 k == IndexOf(dayWorkingHours, "-")
                 startTimeInMinutes == hhmmToMinutes(SubSeq(dayWorkingHours, 1, k - 1))
                 endTimeInMinutes ==
                     hhmmToMinutes(SubSeq(dayWorkingHours, k + 1, Len(dayWorkingHours)))
                 sessionTimeInMinutes == datetime % MinutesPerDay
             IN  sessionTimeInMinutes >= startTimeInMinutes
                 /\ sessionTimeInMinutes <= endTimeInMinutes

isWithinWorkingHours(datetime, workingHours) ==
    LET dayName == getDayName(getDay(datetime))
    IN  IF ~Has(workingHours, dayName) \/ workingHours[dayName] = W_closed THEN FALSE
        ELSE LET dayWorkingHours == workingHours[dayName]
                 k == IndexOf(dayWorkingHours, "-")
                 startTimeInMinutes == hhmmToMinutes(SubSeq(dayWorkingHours, 1, k - 1))
                 endTimeInMinutes ==
                     hhmmToMinutes(SubSeq(dayWorkingHours, k + 1, Len(dayWorkingHours)))
                 sessionTimeInMinutes == datetime % MinutesPerDay
             IN  sessionTimeInMinutes >= startTimeInMinutes
                 /\ sessionTimeInMinutes < endTimeInMinutes

Min3(a, b, c) == IF a <= b /\ a <= c THEN a ELSE IF b <= c THEN b ELSE c

\* the dynamic-programming matrix of levenshteinDistance
levenshteinDistance(str1, str2) ==
    LET matrix[j \in 0..Len(str2), i \in 0..Len(str1)] ==
            IF j = 0 THEN i
            ELSE IF i = 0 THEN j
            ELSE LET indicator == IF str1[i] = str2[j] THEN 0 ELSE 1
                 IN  Min3(matrix[j, i - 1] + 1, matrix[j - 1, i] + 1,
                          matrix[j - 1, i - 1] + indicator)
    IN  matrix[Len(str2), Len(str1)]

\* similarity as the fraction <<numerator, denominator>>
calculateStringSimilarity(str1, str2) ==
    LET longer == IF Len(str1) > Len(str2) THEN str1 ELSE str2
        shorter == IF Len(str1) > Len(str2) THEN str2 ELSE str1
    IN  IF Len(longer) = 0 THEN <<1, 1>>
        ELSE <<Len(longer) - levenshteinDistance(longer, shorter), Len(longer)>>

FracGreater(a, b) == a[1] * b[2] > b[1] * a[2]

threshold == <<7, 10>>

\* rows of a table in primary-key order
RECURSIVE RowsById(_)
RowsById(rows) ==
    IF rows = {} THEN <<>>
    ELSE LET first == CHOOSE r \in rows : \A q \in rows : r.id <= q.id
         IN  <<first>> \o RowsById(rows \ {first})

\* variant: a later patient with the same score replaces the earlier one
RECURSIVE bestMatchFrom_lastWins(_, _, _, _)
bestMatchFrom_lastWins(inputName, list, bestMatch, bestScore) ==
    IF list = <<>> THEN bestMatch
    ELSE LET patient == Head(list)
             similarity == calculateStringSimilarity(toLowerCase(inputName),
                                                     toLowerCase(patient.fullName))
         IN  IF FracGreater(similarity, threshold) /\ ~FracGreater(bestScore, similarity)
             THEN bestMatchFrom_lastWins(inputName, Tail(list), patient, similarity)
             ELSE bestMatchFrom_lastWins(inputName, Tail(list), bestMatch, bestScore)

RECURSIVE bestMatchFrom(_, _, _, _)
bestMatchFrom(inputName, list, bestMatch, bestScore) ==
    IF list = <<>> THEN bestMatch
    ELSE LET patient == Head(list)
             similarity == calculateStringSimilarity(toLowerCase(inputName),
                                                     toLowerCase(patient.fullName))
         IN  IF FracGreater(similarity, threshold) /\ FracGreater(similarity, bestScore)
             THEN bestMatchFrom(inputName, Tail(list), patient, similarity)
             ELSE bestMatchFrom(inputName, Tail(list), bestMatch, bestScore)

findBestNameMatch(inputName, list) ==
    IF Len(list) = 0 THEN NULL ELSE bestMatchFrom(inputName, list, NULL, <<0, 1>>)

\* exact case-insensitive match first, fuzzy match otherwise
findPatientByName(P, name, psychologistId) ==
    LET exact == {p \in P : p.psychologistId = psychologistId
                            /\ toLowerCase(p.fullName) = toLowerCase(name)}
    IN  IF exact # {} THEN Head(RowsById(exact))
        ELSE findBestNameMatch(name, RowsById({p \in P : p.psychologistId = psychologistId}))

\* variant: a session starting at the candidate's own start is not matched
conflictingSessions_strictStart(S, datetime, durationMinutes, psychologistId) ==
    LET sessionStart == datetime
        sessionEnd == datetime + durationMinutes
    IN  {s \in S :
            /\ s.psychologistId = psychologistId
            /\ s.status = "scheduled"
            /\ \/ (s.scheduledAt > sessionStart /\ s.scheduledAt < sessionEnd)
               \/ (s.scheduledAt < sessionStart
                   /\ s.scheduledAt >= sessionStart - LookbackMinutes)}

\* rows the session query of checkSchedulingConflicts matches
conflictingSessions(S, datetime, durationMinutes, psychologistId) ==
    LET sessionStart == datetime
        sessionEnd == datetime + durationMinutes
    IN  {s \in S :
            /\ s.psychologistId = psychologistId
            /\ s.status = "scheduled"
            /\ \/ (s.scheduledAt >= sessionStart /\ s.scheduledAt < sessionEnd)
               \/ (s.scheduledAt < sessionStart
                   /\ s.scheduledAt >= sessionStart - LookbackMinutes)}

blockingBlocks(B, datetime, durationMinutes, psychologistId) ==
    {b \in B : /\ b.psychologistId = psychologistId
               /\ b.startTime <= datetime
               /\ b.endTime >= datetime + durationMinutes}

\* the free-slot search
maxSuggestions == 6
slotStepMinutes == 30
defaultDaysToCheck == 7

isToday(date, t) == date \div MinutesPerDay = t \div MinutesPerDay

\* setMinutes(Math.ceil(getMinutes() / 30) * 30)
roundUpToStep(t) ==
    LET minutes == t % 60
    IN  (t - minutes) + ((minutes + slotStepMinutes - 1) \div slotStepMinutes) * slotStepMinutes

\* the test inside existingSessions.some(...)
slotConflicts(currentTime, slotEnd, session) ==
    LET sessionEnd == session.scheduledAt + session.durationMinutes
    IN  \/ (currentTime >= session.scheduledAt /\ currentTime < sessionEnd)
        \/ (slotEnd > session.scheduledAt /\ slotEnd <= sessionEnd)
        \/ (currentTime <= session.scheduledAt /\ slotEnd >= sessionEnd)

\* variant: a slot is offered whatever sessions it meets
RECURSIVE daySlotsFrom_ignoreSessions(_, _, _, _)
daySlotsFrom_ignoreSessions(currentTime, dayEnd, durationMinutes, existingSessions) ==
    IF currentTime + durationMinutes <= dayEnd
    THEN <<[start |-> currentTime, end |-> currentTime + durationMinutes]>>
         \o daySlotsFrom_ignoreSessions(currentTime + slotStepMinutes, dayEnd,
                                        durationMinutes, existingSessions)
    ELSE <<>>

\* the while loop of getDayAvailableSlots
RECURSIVE daySlotsFrom(_, _, _, _)
daySlotsFrom(currentTime, dayEnd, durationMinutes, existingSessions) ==
    IF currentTime + durationMinutes <= dayEnd
    THEN LET slotEnd == currentTime + durationMinutes
             hasConflict == \E session \in existingSessions :
                                slotConflicts(currentTime, slotEnd, session)
         IN  (IF ~hasConflict THEN <<[start |-> currentTime, end |-> slotEnd]>> ELSE <<>>)
             \o daySlotsFrom(currentTime + slotStepMinutes, dayEnd, durationMinutes,
                             existingSessions)
    ELSE <<>>

\* date carries the time of day of the preferred datetime
getDayAvailableSlots(S, date, durationMinutes, psychologistId, workingHours, t) ==
    LET dayName == getDayName(getDay(date))
    IN  IF ~Has(workingHours, dayName) \/ workingHours[dayName] = W_closed THEN <<>>
        ELSE LET dayWorkingHours == workingHours[dayName]
                 k == IndexOf(dayWorkingHours, "-")
                 midnight == date - (date % MinutesPerDay)
                 dayStart == midnight + hhmmToMinutes(SubSeq(dayWorkingHours, 1, k - 1))
                 dayEnd == midnight
                           + hhmmToMinutes(SubSeq(dayWorkingHours, k + 1,
                                                  Len(dayWorkingHours)))
                 existingSessions ==
                     {s \in S : /\ s.psychologistId = psychologistId
                                /\ s.status = "scheduled"
                                /\ s.scheduledAt >= dayStart
                                /\ s.scheduledAt < date + MinutesPerDay}
                 currentTime == IF isToday(date, t) /\ dayStart < t
                                THEN roundUpToStep(t) ELSE dayStart
             IN  daySlotsFrom(currentTime, dayEnd, durationMinutes, existingSessions)

\* the for loop of findAvailableSlots: the slots collected and the number of
\* days looked at
RECURSIVE scanDays(_, _, _, _, _, _, _, _, _)
scanDays(S, workingHours, preferredDate, durationMinutes, psychologistId, daysToCheck, t, i, slots) ==
    IF i >= daysToCheck THEN [slots |-> slots, daysScanned |-> i]
    ELSE LET checkDate == preferredDate + i * MinutesPerDay
             collected == slots \o getDayAvailableSlots(S, checkDate, durationMinutes,
                                                        psychologistId, workingHours, t)
         IN  IF Len(collected) >= maxSuggestions
             THEN [slots |-> collected, daysScanned |-> i + 1]
             ELSE scanDays(S, workingHours, preferredDate, durationMinutes,
                           psychologistId, daysToCheck, t, i + 1, collected)

\* variant: every slot of the scanned days is returned
findAvailableSlots_noSlice(S, Psy, preferredDate, durationMinutes, psychologistId, daysToCheck, t) ==
    IF psychologistId \notin DOMAIN Psy THEN <<>>
    ELSE scanDays(S, Psy[psychologistId].workingHours, preferredDate, durationMinutes,
                  psychologistId, daysToCheck, t, 0, <<>>).slots

findAvailableSlots(S, Psy, preferredDate, durationMinutes, psychologistId, daysToCheck, t) ==
    IF psychologistId \notin DOMAIN Psy THEN <<>>
    ELSE LET slots == scanDays(S, Psy[psychologistId].workingHours, preferredDate,
                               durationMinutes, psychologistId, daysToCheck, t, 0,
                               <<>>).slots
         IN  SubSeq(slots, 1, IF Len(slots) < maxSuggestions THEN Len(slots)
                              ELSE maxSuggestions)

\* ConflictInfo; conflictingSession lists the rows findFirst may return
checkSchedulingConflicts(S, P, B, Psy, datetime, durationMinutes, psychologistId, t) ==
    LET conflicts(found, availableSlots) ==
            IF found # {} THEN [hasConflict |-> TRUE, conflictingSession |-> found,
                                availableSlots |-> availableSlots]
            ELSE IF blockingBlocks(B, datetime, durationMinutes, psychologistId) # {}
                 THEN [hasConflict |-> TRUE, availableSlots |-> availableSlots]
            ELSE [hasConflict |-> FALSE]
    IN  conflicts({s \in conflictingSessions(S, datetime, durationMinutes, psychologistId) :
                      \E p \in P : p.id = s.patientId},
                  findAvailableSlots(S, Psy, datetime, durationMinutes,
                                     psychologistId, defaultDaysToCheck, t))

\* variant: a command whose patient does not resolve is not valid
validateScheduleCommand_requirePatient(S, P, B, Psy, command, psychologistId, t) ==
    LET errors0 == (IF ~Has(command, "patient") THEN <<"patient_required">> ELSE <<>>)
                   \o (IF ~Has(command, "datetime")
                       THEN <<"datetime_required">> ELSE <<>>)
    IN  IF Len(errors0) > 0 THEN
            [isValid |-> FALSE, conflicts |-> [hasConflict |-> FALSE], errors |-> errors0]
        ELSE IF psychologistId \notin DOMAIN Psy THEN
            [isValid |-> FALSE, conflicts |-> [hasConflict |-> FALSE],
             errors |-> <<"psychologist_not_found">>]
        ELSE
            LET psychologist == Psy[psychologistId]
                errors ==
                    (IF ~isWithinWorkingHours(command.datetime, psychologist.workingHours)
                     THEN <<"outside_working_hours">> ELSE <<>>)
                    \o (IF command.datetime < t THEN <<"in_the_past">> ELSE <<>>)
                patient == findPatientByName(P, command.patient, psychologistId)
                conflicts == checkSchedulingConflicts(S, P, B, Psy, command.datetime,
                                 psychologist.sessionDurationMinutes, psychologistId, t)
            IN  [isValid |-> Len(errors) = 0 /\ ~conflicts.hasConflict /\ patient # NULL,
                 conflicts |-> conflicts, patient |-> patient, errors |-> errors]

validateScheduleCommand(S, P, B, Psy, command, psychologistId, t) ==
    LET errors0 == (IF ~Has(command, "patient") THEN <<"patient_required">> ELSE <<>>)
                   \o (IF ~Has(command, "datetime")
                       THEN <<"datetime_required">> ELSE <<>>)
    IN  IF Len(errors0) > 0 THEN
            [isValid |-> FALSE, conflicts |-> [hasConflict |-> FALSE], errors |-> errors0]
        ELSE IF psychologistId \notin DOMAIN Psy THEN
            [isValid |-> FALSE, conflicts |-> [hasConflict |-> FALSE],
             errors |-> <<"psychologist_not_found">>]
        ELSE
            LET psychologist == Psy[psychologistId]
                validation(errors, patient, conflicts) ==
                    [isValid |-> Len(errors) = 0 /\ ~conflicts.hasConflict,
                     conflicts |-> conflicts, patient |-> patient, errors |-> errors]
            IN  validation(
                    (IF ~isWithinWorkingHours(command.datetime, psychologist.workingHours)
                     THEN <<"outside_working_hours">> ELSE <<>>)
                    \o (IF command.datetime < t THEN <<"in_the_past">> ELSE <<>>),
                    findPatientByName(P, command.patient, psychologistId),
                    checkSchedulingConflicts(S, P, B, Psy, command.datetime,
                        psychologist.sessionDurationMinutes, psychologistId, t))

\* the possible results: findFirst has no orderBy, any matching row may come
validateCancelCommand(S, P, command, psychologistId) ==
    LET errors0 == (IF ~Has(command, "patient") THEN <<"patient_required">> ELSE <<>>)
                   \o (IF ~Has(command, "datetime")
                       THEN <<"date_required">> ELSE <<>>)
    IN  IF Len(errors0) > 0 THEN {[isValid |-> FALSE, errors |-> errors0]}
        ELSE LET patient == findPatientByName(P, command.patient, psychologistId)
             IN  IF patient = NULL THEN
                     {[isValid |-> FALSE, errors |-> <<"patient_not_found">>]}
                 ELSE LET startOfDay == command.datetime - (command.datetime % MinutesPerDay)
                          endOfDay == startOfDay + MinutesPerDay - 1
                          found == {s \in S : /\ s.psychologistId = psychologistId
                                              /\ s.patientId = patient.id
                                              /\ s.scheduledAt >= startOfDay
                                              /\ s.scheduledAt <= endOfDay
                                              /\ s.status = "scheduled"}
                      IN  IF found = {} THEN
                              {[isValid |-> FALSE, session |-> NULL,
                                errors |-> <<"no_session_found">>]}
                          ELSE {[isValid |-> TRUE, session |-> s, errors |-> <<>>] : s \in found}

----------------------------------------------------------------------------
(* The world a call reads and writes: the store tables, the cache, the clock *)

\* faults: the collaborator operations that fail while this call runs;
\* thrown: an exception is propagating; fired: an operation did fail
World == [now |-> now, psychologists |-> psychologists,
          availabilityBlocks |-> availabilityBlocks, patients |-> patients,
          sessions |-> sessions, messageLog |-> messageLog, redis |-> redis,
          faults |-> {}, thrown |-> FALSE, fired |-> FALSE]

Fails(w, op) == op \in w.faults

\* the operation rejects: the exception propagates up to the nearest catch
Throw(w) == [w EXCEPT !.thrown = TRUE, !.fired = TRUE]

\* a catch block that does not rethrow
Caught(w) == [w EXCEPT !.thrown = FALSE]

EmptyObject == [k \in {} |-> NULL]

\* object spread {...a, ...b}
Merge(a, b) == [k \in (DOMAIN a) \cup (DOMAIN b) |-> IF k \in DOMAIN b THEN b[k] ELSE a[k]]

\* Date.toISOString() as <<day, hour, minute>> and new Date(iso)
toISOString(d) == <<d \div MinutesPerDay, (d % MinutesPerDay) \div 60, d % 60>>
parseISO(iso) == iso[1] * MinutesPerDay + iso[2] * 60 + iso[3]

----------------------------------------------------------------------------
(* SessionManager *)

expiryMinutes == defaultExpirySeconds \div 60

\* redis GET: a key whose TTL has run out is gone
redisGet(w, key) ==
    IF w.redis[key] # NULL /\ w.now < w.redis[key].expireAt
    THEN w.redis[key].value ELSE NULL

\* redis DEL; an error is logged and rethrown
clearContext(w, whatsappNumber) ==
    IF w.thrown THEN w
    ELSE IF Fails(w, "redis.del") THEN Throw(w)
    ELSE [w EXCEPT !.redis[whatsappNumber] = NULL]

\* any error (the GET, the DEL of an expired context) is logged and the
\* context is reported absent
getContext(w, whatsappNumber) ==
    IF w.thrown THEN [w |-> w, context |-> NULL]
    ELSE IF Fails(w, "redis.get") THEN [w |-> Caught(Throw(w)), context |-> NULL]
    ELSE LET context == redisGet(w, whatsappNumber)
         IN  IF context = NULL THEN [w |-> w, context |-> NULL]
             ELSE IF w.now > parseISO(context.expiresAt)
                  THEN [w |-> Caught(clearContext(w, whatsappNumber)), context |-> NULL]
             ELSE [w |-> w, context |-> context]

\* redis SETEX with the default expiry; an error is logged and rethrown
setContext(w, whatsappNumber, context) ==
    IF w.thrown THEN w
    ELSE IF Fails(w, "redis.setex") THEN Throw(w)
    ELSE [w EXCEPT !.redis[whatsappNumber] =
             [value |-> context, expireAt |-> w.now + expiryMinutes]]

\* variant: the data bag is replaced by the update's instead of merged
updateContext_replaceData(w, whatsappNumber, updates) ==
    LET got == getContext(w, whatsappNumber)
        currentContext == got.context
    IN  IF currentContext = NULL THEN [w |-> got.w, context |-> NULL]
        ELSE LET updatedContext ==
                     Merge(Merge(currentContext, updates),
                           [data |-> IF Has(updates, "data") THEN updates.data
                                     ELSE EmptyObject])
                 written == setContext(got.w, whatsappNumber, updatedContext)
             IN  [w |-> written, context |-> IF written.thrown THEN NULL ELSE updatedContext]

updateContext(w, whatsappNumber, updates) ==
    LET got == getContext(w, whatsappNumber)
        currentContext == got.context
    IN  IF currentContext = NULL THEN [w |-> got.w, context |-> NULL]
        ELSE LET updatedContext ==
                     Merge(Merge(currentContext, updates),
                           [data |-> Merge(currentContext.data,
                                           IF Has(updates, "data") THEN updates.data
                                           ELSE EmptyObject)])
                 written == setContext(got.w, whatsappNumber, updatedContext)
             IN  [w |-> written, context |-> IF written.thrown THEN NULL ELSE updatedContext]

\* the context as JSON.stringify writes it: the two dates as ISO strings
createContext(w, whatsappNumber, psychologistId) ==
    LET context == [psychologistId |-> psychologistId,
                    step |-> "parsing",
                    data |-> EmptyObject,
                    createdAt |-> toISOString(w.now),
                    expiresAt |-> toISOString(w.now + expiryMinutes)]
        written == setContext(w, whatsappNumber, context)
    IN  [w |-> written, context |-> IF written.thrown THEN NULL ELSE context]

----------------------------------------------------------------------------
(* MessageProcessor *)

positive == {W_sim, W_s, W_yes, W_y, W_ok, W_confirmar, W_confirmo, W_confirma}

\* positive.some(word => normalized.includes(word)); no keyword holds a
\* space, so a keyword occurs in the text iff it occurs in one of its words
isPositiveResponse(message) ==
    LET normalized == normalizeMessage(message)
    IN  \E word \in positive : \E k \in 1..Len(normalized) : includes(normalized[k], word)

findPsychologistByWhatsApp(w, whatsappNumber) ==
    LET found == {id \in DOMAIN w.psychologists :
                     w.psychologists[id].whatsappNumber = whatsappNumber}
    IN  IF found = {} THEN NULL ELSE [id |-> CHOOSE id \in found : TRUE]

\* variant: a rejected append is not caught
logMessage_propagate(w, psychologistIdOrNumber, messageType) ==
    LET psychologist == findPsychologistByWhatsApp(w, psychologistIdOrNumber)
        psychologistId ==
            IF messageType = "incoming"
            THEN (IF psychologist = NULL THEN "" ELSE psychologist.id)
            ELSE psychologistIdOrNumber
        append == IF messageType = "incoming" THEN "messageLog.create/incoming"
                  ELSE "messageLog.create/response"
    IN  IF w.thrown THEN w
        ELSE IF messageType = "incoming" /\ Fails(w, "prisma.find") THEN Caught(Throw(w))
        ELSE IF Fails(w, append) THEN Throw(w)
        ELSE IF psychologistId = "" \/ psychologistId \in DOMAIN w.psychologists
        THEN [w EXCEPT !.messageLog = @ \cup
                 {[psychologistId |-> psychologistId, messageType |-> messageType]}]
        ELSE w

\* best-effort append; a psychologistId that is no psychologist's id violates
\* the foreign key; every error (the lookup, the append) is swallowed
logMessage(w, psychologistIdOrNumber, messageType) ==
    LET psychologist == findPsychologistByWhatsApp(w, psychologistIdOrNumber)
        psychologistId ==
            IF messageType = "incoming"
            THEN (IF psychologist = NULL THEN "" ELSE psychologist.id)
            ELSE psychologistIdOrNumber
        append == IF messageType = "incoming" THEN "messageLog.create/incoming"
                  ELSE "messageLog.create/response"
    IN  IF w.thrown THEN w
        ELSE IF messageType = "incoming" /\ Fails(w, "prisma.find") THEN Caught(Throw(w))
        ELSE IF Fails(w, append) THEN Caught(Throw(w))
        ELSE IF psychologistId = "" \/ psychologistId \in DOMAIN w.psychologists
        THEN [w EXCEPT !.messageLog = @ \cup
                 {[psychologistId |-> psychologistId, messageType |-> messageType]}]
        ELSE w

Outcome(w, success, response, context) ==
    [w |-> w, result |-> [success |-> success, response |-> response, context |-> context]]

\* the validators read the store once the command is structurally complete
readsStore(command) ==
    Has(command, "patient") /\ Has(command, "datetime")

\* a rejected store read outside every try block
Rejected(w, context) == {Outcome(Throw(w), FALSE, "rejected", context)}

\* variant: an unknown patient does not divert to registration
handleScheduleCommand_noRegistration(w, command, context, whatsappNumber) ==
    LET validation == validateScheduleCommand(w.sessions, w.patients, w.availabilityBlocks,
                          w.psychologists, command, context.psychologistId, w.now)
    IN  IF ~validation.isValid THEN
            IF validation.conflicts.hasConflict
            THEN {Outcome(w, TRUE, "ConflictMessage", context)}
            ELSE {Outcome(w, TRUE, "ValidationErrors", context)}
        ELSE
            LET upd == updateContext(w, whatsappNumber,
                           [step |-> "confirmation",
                            currentCommand |-> "schedule",
                            data |-> Merge(context.data,
                                [patientName |-> command.patient,
                                 proposedDatetime |-> toISOString(command.datetime)])])
            IN  {Outcome(upd.w, TRUE, "ScheduleConfirmation", upd.context)}

\* variant: the registration request stashes the datetime but not the name
handleScheduleCommand_noName(w, command, context, whatsappNumber) ==
    LET validation == validateScheduleCommand(w.sessions, w.patients, w.availabilityBlocks,
                          w.psychologists, command, context.psychologistId, w.now)
    IN  IF ~validation.isValid THEN
            IF validation.conflicts.hasConflict
            THEN {Outcome(w, TRUE, "ConflictMessage", context)}
            ELSE {Outcome(w, TRUE, "ValidationErrors", context)}
        ELSE IF validation.patient = NULL THEN
            LET upd == updateContext(w, whatsappNumber,
                           [step |-> "patient_registration",
                            data |-> Merge(context.data,
                                [proposedDatetime |-> toISOString(command.datetime),
                                 pendingConfirmation |-> TRUE])])
            IN  {Outcome(upd.w, TRUE, "NewPatientConfirmation", upd.context)}
        ELSE
            LET upd == updateContext(w, whatsappNumber,
                           [step |-> "confirmation",
                            currentCommand |-> "schedule",
                            data |-> Merge(context.data,
                                [patientName |-> command.patient,
                                 proposedDatetime |-> toISOString(command.datetime)])])
            IN  {Outcome(upd.w, TRUE, "ScheduleConfirmation", upd.context)}

handleScheduleCommand(w, command, context, whatsappNumber) ==
    LET reply(upd, text) == {Outcome(upd.w, TRUE, text, upd.context)}
        after(validation) ==
            IF ~validation.isValid THEN
                IF validation.conflicts.hasConflict
                THEN {Outcome(w, TRUE, "ConflictMessage", context)}
                ELSE {Outcome(w, TRUE, "ValidationErrors", context)}
            ELSE IF validation.patient = NULL THEN
                reply(updateContext(w, whatsappNumber,
                          [step |-> "patient_registration",
                           data |-> Merge(context.data,
                               [patientName |-> command.patient,
                                proposedDatetime |-> toISOString(command.datetime),
                                pendingConfirmation |-> TRUE])]),
                      "NewPatientConfirmation")
            ELSE
                reply(updateContext(w, whatsappNumber,
                          [step |-> "confirmation",
                           currentCommand |-> "schedule",
                           data |-> Merge(context.data,
                               [patientName |-> command.patient,
                                proposedDatetime |-> toISOString(command.datetime)])]),
                      "ScheduleConfirmation")
    IN  IF readsStore(command) /\ Fails(w, "prisma.find") THEN Rejected(w, context)
        ELSE after(validateScheduleCommand(w.sessions, w.patients, w.availabilityBlocks,
                       w.psychologists, command, context.psychologistId, w.now))

\* variant: a cancel command that fails validation drops the conversation state
handleCancelCommand_clearOnInvalid(w, command, context, whatsappNumber) ==
    {IF ~validation.isValid
     THEN Outcome(clearContext(w, whatsappNumber), TRUE, "ValidationErrors", context)
     ELSE LET session == validation.session
              patient == CHOOSE p \in w.patients : p.id = session.patientId
              upd == updateContext(w, whatsappNumber,
                         [step |-> "confirmation",
                          currentCommand |-> "cancel",
                          data |-> Merge(context.data,
                              [sessionId |-> session.id,
                               patientName |-> patient.fullName,
                               proposedDatetime |-> toISOString(session.scheduledAt)])])
          IN  Outcome(upd.w, TRUE, "CancelConfirmation", upd.context)
     : validation \in validateCancelCommand(w.sessions, w.patients, command,
                                            context.psychologistId)}

handleCancelCommand(w, command, context, whatsappNumber) ==
    IF readsStore(command) /\ Fails(w, "prisma.find") THEN Rejected(w, context)
    ELSE
    {IF ~validation.isValid THEN Outcome(w, TRUE, "ValidationErrors", context)
     ELSE LET session == validation.session
              patient == CHOOSE p \in w.patients : p.id = session.patientId
              upd == updateContext(w, whatsappNumber,
                         [step |-> "confirmation",
                          currentCommand |-> "cancel",
                          data |-> Merge(context.data,
                              [sessionId |-> session.id,
                               patientName |-> patient.fullName,
                               proposedDatetime |-> toISOString(session.scheduledAt)])])
          IN  Outcome(upd.w, TRUE, "CancelConfirmation", upd.context)
     : validation \in validateCancelCommand(w.sessions, w.patients, command,
                                            context.psychologistId)}

\* variant: showing the agenda drops the conversation state
handleViewCommand_clearContext(w, command, context) ==
    {Outcome([w EXCEPT !.redis = [n \in DOMAIN @ |-> NULL]], TRUE, "AgendaView", context)}

\* session.findMany, then the agenda is rendered
handleViewCommand(w, command, context) ==
    IF Fails(w, "prisma.find") THEN Rejected(w, context)
    ELSE {Outcome(w, TRUE, "AgendaView", context)}

\* variant: an unknown command clears the conversation state
handleCommandParsing_clearOnUnknown(w, context, message, whatsappNumber) ==
    LET command == parse(message, w.now)
    IN  CASE command.action = "schedule" ->
               handleScheduleCommand(w, command, context, whatsappNumber)
          [] command.action = "cancel" ->
               handleCancelCommand(w, command, context, whatsappNumber)
          [] command.action = "view" -> handleViewCommand(w, command, context)
          [] command.action = "help" -> {Outcome(w, TRUE, "HelpMessage", context)}
          [] OTHER -> {Outcome(clearContext(w, whatsappNumber), TRUE,
                               "UnknownCommandMessage", NULL)}

handleCommandParsing(w, context, message, whatsappNumber) ==
    LET switch(command) ==
            CASE command.action = "schedule" ->
                   handleScheduleCommand(w, command, context, whatsappNumber)
              [] command.action = "cancel" ->
                   handleCancelCommand(w, command, context, whatsappNumber)
              [] command.action = "view" -> handleViewCommand(w, command, context)
              [] command.action = "help" -> {Outcome(w, TRUE, "HelpMessage", context)}
              [] OTHER -> {Outcome(w, TRUE, "UnknownCommandMessage", context)}
    IN  switch(parse(message, w.now))

\* variant: the slot is checked again right before the insert
executeScheduleCommand_recheck(w, context, whatsappNumber) ==
    IF ~Has(context.data, "proposedDatetime") \/ ~Has(context.data, "patientName")
    THEN {Outcome(w, FALSE, "Error:schedule", context)}
    ELSE
    LET datetime == parseISO(context.data.proposedDatetime)
        patient == findPatientByName(w.patients, context.data.patientName,
                                     context.psychologistId)
        configured ==
            IF context.psychologistId \in DOMAIN w.psychologists
            THEN w.psychologists[context.psychologistId].sessionDurationMinutes
            ELSE 0
        duration == IF configured # 0 THEN configured ELSE FallbackDuration
    IN  IF patient = NULL THEN {Outcome(w, FALSE, "Error:patient_not_found", context)}
        ELSE IF checkSchedulingConflicts(w.sessions, w.patients, w.availabilityBlocks,
                    w.psychologists, datetime, duration, context.psychologistId,
                    w.now).hasConflict
        THEN {Outcome(w, FALSE, "Error:schedule", context)}
        ELSE
        LET session == [id |-> Cardinality(w.sessions) + 1,
                        psychologistId |-> context.psychologistId,
                        patientId |-> patient.id,
                        scheduledAt |-> datetime,
                        durationMinutes |-> duration,
                        status |-> "scheduled"]
            w1 == [w EXCEPT !.sessions = @ \cup {session}]
        IN  {Outcome(clearContext(w1, whatsappNumber), TRUE, "ScheduleSuccess", NULL)}

\* variant: the conversation state is not cleared after the insert
executeScheduleCommand_keepContext(w, context, whatsappNumber) ==
    IF ~Has(context.data, "proposedDatetime") \/ ~Has(context.data, "patientName")
    THEN {Outcome(w, FALSE, "Error:schedule", context)}
    ELSE
    LET datetime == parseISO(context.data.proposedDatetime)
        patient == findPatientByName(w.patients, context.data.patientName,
                                     context.psychologistId)
        configured ==
            IF context.psychologistId \in DOMAIN w.psychologists
            THEN w.psychologists[context.psychologistId].sessionDurationMinutes
            ELSE 0
    IN  IF patient = NULL THEN {Outcome(w, FALSE, "Error:patient_not_found", context)}
        ELSE
        LET session == [id |-> Cardinality(w.sessions) + 1,
                        psychologistId |-> context.psychologistId,
                        patientId |-> patient.id,
                        scheduledAt |-> datetime,
                        durationMinutes |-> IF configured # 0 THEN configured
                                            ELSE FallbackDuration,
                        status |-> "scheduled"]
            w1 == [w EXCEPT !.sessions = @ \cup {session}]
        IN  {Outcome(w1, TRUE, "ScheduleSuccess", NULL)}

\* the whole body runs in one try block: a rejected lookup, insert or
\* clearContext ends in the handler's own error result
executeScheduleCommand(w, context, whatsappNumber) ==
    IF ~Has(context.data, "proposedDatetime") \/ ~Has(context.data, "patientName")
    THEN {Outcome(w, FALSE, "Error:schedule", context)}
    ELSE IF Fails(w, "prisma.find")
    THEN {Outcome(Caught(Throw(w)), FALSE, "Error:schedule", context)}
    ELSE
    LET datetime == parseISO(context.data.proposedDatetime)
        patient == findPatientByName(w.patients, context.data.patientName,
                                     context.psychologistId)
    IN  IF patient = NULL THEN {Outcome(w, FALSE, "Error:patient_not_found", context)}
        ELSE IF Fails(w, "session.create")
        THEN {Outcome(Caught(Throw(w)), FALSE, "Error:schedule", context)}
        ELSE
        LET configured ==
                IF context.psychologistId \in DOMAIN w.psychologists
                THEN w.psychologists[context.psychologistId].sessionDurationMinutes
                ELSE 0
            session == [id |-> Cardinality(w.sessions) + 1,
                        psychologistId |-> context.psychologistId,
                        patientId |-> patient.id,
                        scheduledAt |-> datetime,
                        durationMinutes |-> IF configured # 0 THEN configured
                                            ELSE FallbackDuration,
                        status |-> "scheduled"]
            w1 == [w EXCEPT !.sessions = @ \cup {session}]
            w2 == clearContext(w1, whatsappNumber)
        IN  IF w2.thrown THEN {Outcome(Caught(w2), FALSE, "Error:schedule", context)}
            ELSE {Outcome(w2, TRUE, "ScheduleSuccess", NULL)}

\* variant: every scheduled session of the same patient is cancelled
executeCancelCommand_allOfPatient(w, context, whatsappNumber) ==
    IF ~Has(context.data, "sessionId")
       \/ ~\E s \in w.sessions : s.id = context.data.sessionId
    THEN {Outcome(w, FALSE, "Error:cancel", context)}
    ELSE
    LET target == CHOOSE s \in w.sessions : s.id = context.data.sessionId
        w1 == [w EXCEPT !.sessions =
                  {IF s.patientId = target.patientId
                   THEN [s EXCEPT !.status = "cancelled"] ELSE s : s \in @}]
    IN  {Outcome(clearContext(w1, whatsappNumber), TRUE, "CancelSuccess", NULL)}

\* one try block around the update and the clearContext
executeCancelCommand(w, context, whatsappNumber) ==
    IF ~Has(context.data, "sessionId")
       \/ ~\E s \in w.sessions : s.id = context.data.sessionId
    THEN {Outcome(w, FALSE, "Error:cancel", context)}
    ELSE IF Fails(w, "session.update")
    THEN {Outcome(Caught(Throw(w)), FALSE, "Error:cancel", context)}
    ELSE
    LET w1 == [w EXCEPT !.sessions =
                  {IF s.id = context.data.sessionId
                   THEN [s EXCEPT !.status = "cancelled"] ELSE s : s \in @}]
        w2 == clearContext(w1, whatsappNumber)
    IN  IF w2.thrown THEN {Outcome(Caught(w2), FALSE, "Error:cancel", context)}
        ELSE {Outcome(w2, TRUE, "CancelSuccess", NULL)}

\* variant: a refusal leaves the conversation state in place
handleConfirmation_keepOnNegative(w, context, message, whatsappNumber) ==
    IF ~isPositiveResponse(message)
    THEN {Outcome(w, TRUE, "OperationCancelled", NULL)}
    ELSE IF Has(context, "currentCommand") /\ context.currentCommand = "schedule"
         THEN executeScheduleCommand(w, context, whatsappNumber)
    ELSE IF Has(context, "currentCommand") /\ context.currentCommand = "cancel"
         THEN executeCancelCommand(w, context, whatsappNumber)
    ELSE {Outcome(w, FALSE, "Error:unrecognized_command", context)}

handleConfirmation(w, context, message, whatsappNumber) ==
    IF ~isPositiveResponse(message)
    THEN {Outcome(clearContext(w, whatsappNumber), TRUE, "OperationCancelled", NULL)}
    ELSE IF Has(context, "currentCommand") /\ context.currentCommand = "schedule"
         THEN executeScheduleCommand(w, context, whatsappNumber)
    ELSE IF Has(context, "currentCommand") /\ context.currentCommand = "cancel"
         THEN executeCancelCommand(w, context, whatsappNumber)
    ELSE {Outcome(w, FALSE, "Error:unrecognized_command", context)}

\* variant: after the registration only the step is updated
handlePatientRegistration_stepOnly(w, context, message, whatsappNumber) ==
    IF ~isPositiveResponse(message)
    THEN {Outcome(clearContext(w, whatsappNumber), TRUE, "PatientNotCreated", NULL)}
    ELSE IF \/ ~Has(context.data, "patientName")
            \/ \E p \in w.patients : /\ p.psychologistId = context.psychologistId
                                      /\ p.fullName = context.data.patientName
         THEN {Outcome(w, FALSE, "Error:create_patient", context)}
    ELSE
    LET patient == [id |-> Cardinality(w.patients) + 1,
                    psychologistId |-> context.psychologistId,
                    fullName |-> context.data.patientName]
        w1 == [w EXCEPT !.patients = @ \cup {patient}]
        upd == updateContext(w1, whatsappNumber, [step |-> "confirmation"])
    IN  {Outcome(upd.w, TRUE, "PatientCreated+ScheduleConfirmation", upd.context)}

handlePatientRegistration(w, context, message, whatsappNumber) ==
    IF ~isPositiveResponse(message)
    THEN {Outcome(clearContext(w, whatsappNumber), TRUE, "PatientNotCreated", NULL)}
    ELSE IF \/ ~Has(context.data, "patientName")
            \/ \E p \in w.patients : /\ p.psychologistId = context.psychologistId
                                      /\ p.fullName = context.data.patientName
         THEN \* patient.create throws (required field, unique index); caught
              {Outcome(w, FALSE, "Error:create_patient", context)}
    ELSE IF Fails(w, "patient.create")
    THEN {Outcome(Caught(Throw(w)), FALSE, "Error:create_patient", context)}
    ELSE
    LET patient == [id |-> Cardinality(w.patients) + 1,
                    psychologistId |-> context.psychologistId,
                    fullName |-> context.data.patientName]
        w1 == [w EXCEPT !.patients = @ \cup {patient}]
        upd == updateContext(w1, whatsappNumber,
                   [step |-> "confirmation", currentCommand |-> "schedule"])
    IN  IF upd.w.thrown
        THEN {Outcome(Caught(upd.w), FALSE, "Error:create_patient", context)}
        ELSE {Outcome(upd.w, TRUE, "PatientCreated+ScheduleConfirmation", upd.context)}

\* case 'parsing' and the default case run the same handler
processMessageByStep(w, context, message, whatsappNumber) ==
    CASE context.step = "confirmation" ->
           handleConfirmation(w, context, message, whatsappNumber)
      [] context.step = "patient_registration" ->
           handlePatientRegistration(w, context, message, whatsappNumber)
      [] OTHER -> handleCommandParsing(w, context, message, whatsappNumber)

\* the result of processMessage's catch block
InternalError == [success |-> FALSE, response |-> "Error:internal"]

\* processMessage up to the dispatch: log, load or create the context.
\* done = TRUE when the call returns here (no psychologist for the number).
\* variant: a conversation state is created for an unknown sender too
loadContext_createForUnknown(w, whatsappNumber) ==
    LET w1 == logMessage(w, whatsappNumber, "incoming")
        got == getContext(w1, whatsappNumber)
    IN  IF got.context # NULL
        THEN [done |-> FALSE, w |-> got.w, context |-> got.context, loaded |-> got.context.step]
        ELSE LET psychologist == findPsychologistByWhatsApp(got.w, whatsappNumber)
             IN  IF psychologist = NULL
                 THEN [done |-> TRUE,
                       w |-> logMessage(createContext(got.w, whatsappNumber, "").w,
                                        whatsappNumber, "response"),
                       result |-> [success |-> TRUE, response |-> "WelcomeMessage"],
                       loaded |-> "none"]
                 ELSE LET made == createContext(got.w, whatsappNumber, psychologist.id)
                      IN  [done |-> FALSE, w |-> made.w, context |-> made.context,
                           loaded |-> "none"]

\* variant: the first message only creates the state and is answered with
\* the help text
loadContext_createOnly(w, whatsappNumber) ==
    LET w1 == logMessage(w, whatsappNumber, "incoming")
        got == getContext(w1, whatsappNumber)
    IN  IF got.context # NULL
        THEN [done |-> FALSE, w |-> got.w, context |-> got.context, loaded |-> got.context.step]
        ELSE LET psychologist == findPsychologistByWhatsApp(got.w, whatsappNumber)
             IN  IF psychologist = NULL
                 THEN [done |-> TRUE,
                       w |-> logMessage(got.w, whatsappNumber, "response"),
                       result |-> [success |-> TRUE, response |-> "WelcomeMessage"],
                       loaded |-> "none"]
                 ELSE LET made == createContext(got.w, whatsappNumber, psychologist.id)
                      IN  [done |-> TRUE,
                           w |-> logMessage(made.w, psychologist.id, "response"),
                           result |-> [success |-> TRUE, response |-> "HelpMessage"],
                           loaded |-> "none"]

loadContext(w, whatsappNumber) ==
    LET w1 == logMessage(w, whatsappNumber, "incoming")
        got == getContext(w1, whatsappNumber)
    IN  IF got.context # NULL
        THEN [done |-> FALSE, w |-> got.w, context |-> got.context, loaded |-> got.context.step]
        ELSE IF Fails(got.w, "prisma.find")
        THEN [done |-> TRUE, w |-> Caught(Throw(got.w)), result |-> InternalError,
              loaded |-> "none"]
        ELSE LET psychologist == findPsychologistByWhatsApp(got.w, whatsappNumber)
             IN  IF psychologist = NULL
                 THEN [done |-> TRUE,
                       w |-> logMessage(got.w, whatsappNumber, "response"),
                       result |-> [success |-> TRUE, response |-> "WelcomeMessage"],
                       loaded |-> "none"]
                 ELSE LET made == createContext(got.w, whatsappNumber, psychologist.id)
                      IN  IF made.w.thrown
                          THEN [done |-> TRUE, w |-> Caught(made.w),
                                result |-> InternalError, loaded |-> "none"]
                          ELSE [done |-> FALSE, w |-> made.w, context |-> made.context,
                                loaded |-> "none"]

\* processMessage from the dispatch on: handle by step, log the response
dispatch(w, context, message, whatsappNumber) ==
    {IF o.w.thrown THEN [w |-> Caught(o.w), result |-> InternalError]
     ELSE [o EXCEPT !.w = logMessage(o.w, context.psychologistId, "response")]
     : o \in processMessageByStep(w, context, message, whatsappNumber)}

processMessage(w, whatsappNumber, message) ==
    LET l == loadContext(w, whatsappNumber)
    IN  IF l.done THEN {[w |-> l.w, result |-> l.result, loaded |-> l.loaded]}
        ELSE {[w |-> o.w, result |-> o.result, loaded |-> l.loaded]
              : o \in dispatch(l.w, l.context, message, whatsappNumber)}

----------------------------------------------------------------------------
(* Inputs and initial store *)

Numbers == {"n1", "n3"}
Durations == {50, 90}

M_agendar_ana_10h == <<W_agendar, W_Ana, W_hoje, W_10h>>
M_marcar_anna_1120 == <<W_marcar, W_Anna, W_hoje, W_1120>>
M_agendar_bia_1050 == <<W_agendar, W_Bia, W_hoje, W_1050>>
M_agendar_ana_amanha == <<W_agendar, W_Ana, W_amanha, W_10h>>
M_cancelar_ana == <<W_cancelar, W_Ana, W_hoje>>
M_sim == <<W_SIM>>
M_agendar_ana_14h == <<W_agendar, W_Ana, W_hoje, W_14h>>
M_agendar_ana_9h == <<W_agendar, W_Ana, W_hoje, W_9h>>
M_cancelar_bia == <<W_cancelar, W_Bia, W_hoje>>
M_ver_agenda == <<W_ver, W_agenda>>
M_nao == <<W_nao>>
M_ajuda == <<W_ajuda>>

Inputs ==
    ({"n1"} \X {M_agendar_ana_10h, M_marcar_anna_1120, M_agendar_bia_1050,
                M_agendar_ana_amanha, M_cancelar_ana, M_sim, M_nao, M_ajuda})
    \cup ({"n3"} \X {M_sim})

Messages == {i[2] : i \in Inputs}

\* every utterance a specification sends, and those isPositiveResponse
\* accepts, computed once
Utterances == Messages \cup {M_cancelar_bia}
PositiveMessages == {m \in Utterances : isPositiveResponse(m)}

\* the router and the Go client as constructed
\* the inbound messages of a run, each a message object of its own
Deliveries == {"m1", "m2"}

newRouter ==
    [psychologistMappings |-> {"n1"},
     messageQueue |-> <<>>,
     timers |-> {},
     delivered |-> {},
     runs |-> [key \in Deliveries |-> 0],
     notices |-> [key \in Deliveries |-> 0]]

MaxLoops == 2         \* Reconnect goroutines alive at a time

newLoop == [pc |-> "none", i |-> 0, attempts |-> <<>>, returned |-> [kind |-> "none"]]

newClient ==
    [WAMaxRetries |-> 0, connected |-> TRUE, loops |-> [l \in 1..MaxLoops |-> newLoop]]

WorkingHours == [seg |-> W_1000_1300, ter |-> W_1000_1300, dom |-> W_closed]

\* psy1 talks to the assistant; psy2 is another practice with its own patient
\* and one booked session
Init ==
    /\ now = NowStart
    /\ \E d \in Durations :
         psychologists =
            [psy1 |-> [whatsappNumber |-> "n1", sessionDurationMinutes |-> d,
                       workingHours |-> WorkingHours],
             psy2 |-> [whatsappNumber |-> "n2", sessionDurationMinutes |-> 50,
                       workingHours |-> WorkingHours]]
    /\ availabilityBlocks =
         {[psychologistId |-> "psy1", startTime |-> MinutesPerDay + 600,
           endTime |-> MinutesPerDay + 780]}
    /\ patients = {[id |-> 1, psychologistId |-> "psy1", fullName |-> W_Ana],
                   [id |-> 2, psychologistId |-> "psy2", fullName |-> W_Ana]}
    /\ sessions = {[id |-> 1, psychologistId |-> "psy2", patientId |-> 2,
                    scheduledAt |-> 630, durationMinutes |-> 50,
                    status |-> "scheduled"]}
    /\ messageLog = {}
    /\ redis = [n \in Numbers |-> NULL]
    /\ inflight = [c \in 1..MaxInflight |-> NULL]
    /\ result = NULL
    /\ call = [whatsappNumber |-> "", loaded |-> "none", positive |-> FALSE,
               fault |-> "none"]
    /\ faulted = 0
    /\ router = newRouter
    /\ wa = newClient
    /\ nlp = NULL

Install(w) ==
    /\ patients' = w.patients
    /\ sessions' = w.sessions
    /\ messageLog' = w.messageLog
    /\ redis' = w.redis
    /\ faulted' = IF w.fired THEN faulted + 1 ELSE faulted
    /\ UNCHANGED <<now, psychologists, availabilityBlocks, router, wa, nlp>>

\* time passes; redis drops the keys whose TTL has run out
Tick ==
    /\ now + TickStep <= NowStart + MaxTicks * TickStep
    /\ now' = now + TickStep
    /\ redis' = [n \in Numbers |->
                    IF redis[n] # NULL /\ redis[n].expireAt <= now + TickStep
                    THEN NULL ELSE redis[n]]
    /\ UNCHANGED <<psychologists, availabilityBlocks, patients, sessions,
                   messageLog, inflight, result, call, faulted, router, wa, nlp>>

\* one processMessage call run from start to return with no other call between
Handle(whatsappNumber, message) ==
    /\ \A c \in 1..MaxInflight : inflight[c] = NULL
    /\ \E o \in processMessage(World, whatsappNumber, message) :
         /\ Cardinality(o.w.sessions) <= MaxSessions
         /\ Install(o.w)
         /\ result' = o.result
         /\ call' = [whatsappNumber |-> whatsappNumber, loaded |-> o.loaded,
                     positive |-> message \in PositiveMessages, fault |-> "none"]
    /\ UNCHANGED inflight

Next ==
    \/ Tick
    \/ \E i \in Inputs : Handle(i[1], i[2])

Spec == Init /\ [][Next]_vars

----------------------------------------------------------------------------
(* Overlapping calls: a call may be suspended at the await between loading
   its context and dispatching on it, and other calls run meanwhile *)

\* messages that may overlap: a command, its confirmation, a refusal
ConcInputs == {"n1", "n3"} \X {M_agendar_ana_10h, M_sim, M_nao}

FreeSlots == {c \in 1..MaxInflight : inflight[c] = NULL}

\* processMessage from entry to the dispatch
BeginCall(whatsappNumber, message) ==
    /\ FreeSlots # {}
    /\ LET l == loadContext(World, whatsappNumber)
           c == Min(FreeSlots)
       IN  /\ Install(l.w)
           /\ IF l.done
              THEN /\ result' = l.result
                   /\ call' = [whatsappNumber |-> whatsappNumber, loaded |-> l.loaded,
                               positive |-> message \in PositiveMessages,
                               fault |-> "none"]
                   /\ UNCHANGED inflight
              ELSE /\ inflight' = [inflight EXCEPT ![c] =
                          [whatsappNumber |-> whatsappNumber, message |-> message,
                           context |-> l.context, loaded |-> l.loaded]]
                   /\ UNCHANGED <<result, call>>

\* processMessage from the dispatch to return, on the context loaded earlier
FinishCall(c) ==
    /\ inflight[c] # NULL
    /\ \E o \in dispatch(World, inflight[c].context, inflight[c].message,
                         inflight[c].whatsappNumber) :
         /\ Cardinality(o.w.sessions) <= MaxSessions
         /\ Install(o.w)
         /\ result' = o.result
         /\ call' = [whatsappNumber |-> inflight[c].whatsappNumber,
                     loaded |-> inflight[c].loaded,
                     positive |-> inflight[c].message \in PositiveMessages,
                     fault |-> "none"]
    /\ inflight' = [inflight EXCEPT ![c] = NULL]

NextConc ==
    \/ Tick
    \/ \E i \in ConcInputs : BeginCall(i[1], i[2])
    \/ \E c \in 1..MaxInflight : FinishCall(c)

SpecConc == Init /\ [][NextConc]_vars

----------------------------------------------------------------------------
(* Failing collaborators: during one call every operation of one kind is
   rejected (cache get, setex or del; a store read; one of the store writes;
   one of the two audit-log appends) *)

Faults == {"redis.get", "redis.setex", "redis.del", "prisma.find",
           "patient.create", "session.create", "session.update",
           "messageLog.create/incoming", "messageLog.create/response"}

\* a schedule command for a patient to register, its cancel, the replies
FaultInputs ==
    ({"n1"} \X {M_agendar_bia_1050, M_cancelar_bia, M_sim, M_nao})
    \cup ({"n3"} \X {M_sim})

\* one processMessage call during which an operation of kind fault was
\* reached and rejected; these calls are recorded with their message
HandleFaulty(whatsappNumber, message, fault) ==
    /\ faulted < MaxFaults
    /\ \A c \in 1..MaxInflight : inflight[c] = NULL
    /\ \E o \in processMessage([World EXCEPT !.faults = {fault}], whatsappNumber, message) :
         /\ o.w.fired
         /\ Cardinality(o.w.sessions) <= MaxSessions
         /\ Install(o.w)
         /\ result' = o.result
         /\ call' = [whatsappNumber |-> whatsappNumber, loaded |-> o.loaded,
                     positive |-> message \in PositiveMessages, fault |-> fault,
                     message |-> message]
    /\ UNCHANGED inflight

NextFault ==
    \/ Tick
    \/ \E i \in FaultInputs : Handle(i[1], i[2])
    \/ \E i \in FaultInputs : \E f \in Faults : HandleFaulty(i[1], i[2], f)

SpecFault == Init /\ [][NextFault]_vars

----------------------------------------------------------------------------
(* Properties *)

\* [a, a+da) and [b, b+db) intersect
Intersects(a, da, b, db) == a < b + db /\ b < a + da

Overlap(s1, s2) ==
    Intersects(s1.scheduledAt, s1.durationMinutes, s2.scheduledAt, s2.durationMinutes)

Scheduled(psychologistId) ==
    {s \in sessions : s.psychologistId = psychologistId /\ s.status = "scheduled"}

\* the context a call on this number would load now
LiveContext(n) == getContext(World, n).context

\* this step is a processMessage call on number n run to completion
HandleStep(n) == now' = now /\ call'.whatsappNumber = n

CandidateTimes == {600, 650, 680}

\* C1: for every owner, no two scheduled appointments have overlapping
\* intervals [scheduledAt, scheduledAt + durationMinutes), after any sequence
\* of calls processed one at a time.
C1_NoOverlappingScheduled ==
    \A id \in DOMAIN psychologists :
        \A s1, s2 \in Scheduled(id) : s1.id # s2.id => ~Overlap(s1, s2)

\* C2: with overlapping calls, a positive confirmation of a pending schedule
\* whose patient resolves always inserts the appointment at the stashed
\* datetime, whatever the sessions table holds by then: nothing re-checks
\* the slot between the validation and the insert.
C2_InsertIsUnguarded ==
    [][\A c \in 1..MaxInflight :
         (/\ inflight[c] # NULL
          /\ inflight'[c] = NULL
          /\ inflight[c].context.step = "confirmation"
          /\ Has(inflight[c].context, "currentCommand")
          /\ inflight[c].context.currentCommand = "schedule"
          /\ isPositiveResponse(inflight[c].message)
          /\ findPatientByName(patients, inflight[c].context.data.patientName,
                               inflight[c].context.psychologistId) # NULL)
         => \E s \in sessions' \ sessions :
               /\ s.status = "scheduled"
               /\ s.psychologistId = inflight[c].context.psychologistId
               /\ s.scheduledAt = parseISO(inflight[c].context.data.proposedDatetime)]_vars

\* two scheduled appointments of one owner at the same instant
C2_DoubleBooked ==
    \E s1, s2 \in Scheduled("psy1") :
        s1.id # s2.id /\ s1.scheduledAt = s2.scheduledAt

\* C3: checkSchedulingConflicts reports a session conflict for the candidate
\* [start, start+duration) exactly when a scheduled appointment of the same
\* owner intersects it; touching endpoints are no conflict.
C3_ConflictIffIntersects ==
    \A start \in CandidateTimes :
        LET duration == psychologists["psy1"].sessionDurationMinutes
            info == checkSchedulingConflicts(sessions, patients, availabilityBlocks,
                                             psychologists, start, duration, "psy1", now)
        IN  Has(info, "conflictingSession")
            <=> \E s \in Scheduled("psy1") :
                    Intersects(start, duration, s.scheduledAt, s.durationMinutes)

\* C4: once a schedule command has been executed (appointment created), a
\* conflict check for the same owner and the same interval reports a conflict.
C4_RoundTrip ==
    [][(/\ now' = now
        /\ result' # NULL
        /\ result'.response = "ScheduleSuccess"
        /\ LiveContext(call'.whatsappNumber) # NULL)
       => LET context == LiveContext(call'.whatsappNumber)
          IN  checkSchedulingConflicts(sessions', patients', availabilityBlocks',
                  psychologists', parseISO(context.data.proposedDatetime),
                  psychologists'[context.psychologistId].sessionDurationMinutes,
                  context.psychologistId, now').hasConflict]_vars

C4_Executed ==
    /\ result # NULL
    /\ result.response = "ScheduleSuccess"
    /\ \E s \in Scheduled("psy1") :
          checkSchedulingConflicts(sessions, patients, availabilityBlocks, psychologists,
              s.scheduledAt, s.durationMinutes, "psy1", now).hasConflict

\* C5: in awaiting_confirmation with a pending schedule, a positive reply
\* (patient resolvable) creates exactly one appointment for the owner with
\* the resolved patient, the stashed datetime and the owner's default
\* duration, and the conversation state is absent afterwards.
C5_ConfirmScheduleCreatesOne ==
    [][\A n \in Numbers :
         LET context == LiveContext(n)
         IN  (/\ HandleStep(n)
              /\ call'.positive
              /\ context # NULL
              /\ context.step = "confirmation"
              /\ context.currentCommand = "schedule"
              /\ findPatientByName(patients, context.data.patientName,
                                   context.psychologistId) # NULL)
             => /\ \E s \in sessions' :
                     /\ sessions' = sessions \cup {s}
                     /\ s \notin sessions
                     /\ s.psychologistId = context.psychologistId
                     /\ s.patientId = findPatientByName(patients, context.data.patientName,
                                                        context.psychologistId).id
                     /\ s.scheduledAt = parseISO(context.data.proposedDatetime)
                     /\ s.durationMinutes =
                            psychologists[context.psychologistId].sessionDurationMinutes
                     /\ s.status = "scheduled"
                /\ redis'[n] = NULL]_vars

C5_ScheduleConfirmed ==
    /\ result # NULL
    /\ result.response = "ScheduleSuccess"
    /\ call.loaded = "confirmation"
    /\ call.positive
    /\ redis[call.whatsappNumber] = NULL
    /\ Cardinality(Scheduled("psy1")) >= 1

\* C6: in awaiting_confirmation with a pending cancel, a positive reply sets
\* status cancelled on exactly the appointment whose id was stashed, changes
\* no other appointment, and the conversation state is absent afterwards.
C6_ConfirmCancelOnlyStashed ==
    [][\A n \in Numbers :
         LET context == LiveContext(n)
         IN  (/\ HandleStep(n)
              /\ call'.positive
              /\ context # NULL
              /\ context.step = "confirmation"
              /\ context.currentCommand = "cancel")
             => /\ sessions' = {IF s.id = context.data.sessionId
                                THEN [s EXCEPT !.status = "cancelled"] ELSE s
                                : s \in sessions}
                /\ \E s \in sessions : s.id = context.data.sessionId
                /\ redis'[n] = NULL]_vars

\* a cancel was confirmed while another appointment of the owner stays scheduled
C6_CancelConfirmed ==
    /\ result # NULL
    /\ result.response = "CancelSuccess"
    /\ call.loaded = "confirmation"
    /\ \E s \in sessions : s.psychologistId = "psy1" /\ s.status = "cancelled"
    /\ Scheduled("psy1") # {}

\* C7: in awaiting_confirmation or awaiting_patient_registration, a reply
\* not classified positive deletes the conversation state and leaves the
\* appointments and the patients unchanged.
C7_NegativeClearsOnly ==
    [][\A n \in Numbers :
         LET context == LiveContext(n)
         IN  (/\ HandleStep(n)
              /\ ~call'.positive
              /\ context # NULL
              /\ context.step \in {"confirmation", "patient_registration"})
             => /\ redis'[n] = NULL
                /\ sessions' = sessions
                /\ patients' = patients]_vars

C7_Refused ==
    /\ result # NULL
    /\ result.response = "OperationCancelled"
    /\ call.loaded = "confirmation"
    /\ ~call.positive
    /\ redis[call.whatsappNumber] = NULL

\* C8 as stated: from every step, parsing included, a negative reply leaves
\* the conversation key with no persisted state.
C8_NegativeClearsFromEveryStep ==
    [][\A n \in Numbers :
         (/\ HandleStep(n)
          /\ ~call'.positive
          /\ LiveContext(n) # NULL
          /\ \/ LiveContext(n).step \in {"confirmation", "patient_registration"}
             \/ result'.response = "UnknownCommandMessage")
         => redis'[n] = NULL]_vars

\* C8 amended: from awaiting_confirmation and awaiting_patient_registration a
\* negative reply leaves no persisted state; in step parsing a negative reply
\* that is no command leaves the state persisted in step parsing, with no
\* pending command and no pending data.
C8_NegativeLeavesNoPendingData ==
    [][\A n \in Numbers :
         LET context == LiveContext(n)
         IN  (HandleStep(n) /\ ~call'.positive /\ context # NULL)
             => /\ context.step \in {"confirmation", "patient_registration"}
                     => redis'[n] = NULL
                /\ (context.step = "parsing" /\ result'.response = "UnknownCommandMessage")
                     => /\ redis'[n] # NULL
                        /\ redis'[n].value.step = "parsing"
                        /\ ~Has(redis'[n].value, "currentCommand")
                        /\ redis'[n].value.data = EmptyObject]_vars

C8_NegativeInParsing ==
    /\ result # NULL
    /\ result.response = "UnknownCommandMessage"
    /\ call.loaded = "parsing"
    /\ ~call.positive
    /\ redis[call.whatsappNumber] # NULL
    /\ redis[call.whatsappNumber].value.step = "parsing"

\* C9: in awaiting_patient_registration, a positive reply creates one patient
\* for the owner with the stashed name, and the persisted state then has step
\* awaiting_confirmation, pendingCommand schedule, and the patient name and
\* proposed datetime stashed when registration was requested.
C9_RegistrationCreatesPatient ==
    [][\A n \in Numbers :
         LET context == LiveContext(n)
         IN  (/\ HandleStep(n)
              /\ call'.positive
              /\ context # NULL
              /\ context.step = "patient_registration")
             => /\ \E p \in patients' :
                     /\ patients' = patients \cup {p}
                     /\ p \notin patients
                     /\ p.psychologistId = context.psychologistId
                     /\ p.fullName = context.data.patientName
                /\ sessions' = sessions
                /\ redis'[n] # NULL
                /\ redis'[n].value.step = "confirmation"
                /\ Has(redis'[n].value, "currentCommand")
                /\ redis'[n].value.currentCommand = "schedule"
                /\ Has(redis'[n].value.data, "patientName")
                /\ redis'[n].value.data.patientName = context.data.patientName
                /\ Has(redis'[n].value.data, "proposedDatetime")
                /\ redis'[n].value.data.proposedDatetime = context.data.proposedDatetime
                /\ redis'[n].value.psychologistId = context.psychologistId]_vars

C9_Registered ==
    /\ result # NULL
    /\ result.response = "PatientCreated+ScheduleConfirmation"
    /\ call.loaded = "patient_registration"
    /\ redis[call.whatsappNumber] # NULL
    /\ redis[call.whatsappNumber].value.step = "confirmation"
    /\ \E p \in patients : p.fullName = redis[call.whatsappNumber].value.data.patientName


\* C10: in step parsing, whatever the message: a valid schedule command moves
\* the state to awaiting_patient_registration (name and datetime stashed)
\* when the patient resolves to null, and to awaiting_confirmation with
\* pendingCommand schedule when it resolves; a valid cancel command moves it
\* to awaiting_confirmation with pendingCommand cancel and the session id
\* stashed; every other message leaves the state as it was, in parsing.
C10_TransitionsFromParsing ==
    \A n \in Numbers : \A m \in Messages :
        LET context == LiveContext(n)
            command == parse(m, now)
        IN  (context # NULL /\ context.step = "parsing")
            => \A o \in processMessage(World, n, m) :
                 LET after == redisGet(o.w, n)
                     vs == validateScheduleCommand(sessions, patients, availabilityBlocks,
                               psychologists, command, context.psychologistId, now)
                     vc == validateCancelCommand(sessions, patients, command,
                                                 context.psychologistId)
                 IN  /\ after # NULL
                     /\ IF command.action = "schedule" /\ vs.isValid /\ vs.patient = NULL
                        THEN /\ after.step = "patient_registration"
                             /\ after.data.patientName = command.patient
                             /\ parseISO(after.data.proposedDatetime) = command.datetime
                        ELSE IF command.action = "schedule" /\ vs.isValid
                        THEN /\ after.step = "confirmation"
                             /\ after.currentCommand = "schedule"
                             /\ after.data.patientName = command.patient
                             /\ parseISO(after.data.proposedDatetime) = command.datetime
                        ELSE IF command.action = "cancel" /\ \E v \in vc : v.isValid
                        THEN /\ after.step = "confirmation"
                             /\ after.currentCommand = "cancel"
                             /\ \E v \in vc : v.isValid /\ after.data.sessionId = v.session.id
                        ELSE after = context

C10_MovedToRegistration ==
    /\ result # NULL
    /\ result.response = "NewPatientConfirmation"
    /\ call.loaded = "parsing"
    /\ redis[call.whatsappNumber] # NULL
    /\ redis[call.whatsappNumber].value.step = "patient_registration"
    /\ Has(redis[call.whatsappNumber].value.data, "proposedDatetime")

\* messages applied to every reachable state: the inputs, a view command,
\* schedule commands outside the working hours and in the past, a cancel
\* command for an unknown patient
ProbeMessages ==
    Messages \cup {M_ver_agenda, M_agendar_ana_14h, M_agendar_ana_9h, M_cancelar_bia}

\* C11: in step parsing, a schedule or cancel command that fails validation
\* (outside working hours, in the past, conflict, patient or session not
\* found for cancel) is answered with the validation or conflict message and
\* leaves the persisted conversation state, the appointments and the
\* patients as they were.
C11_InvalidCommandChangesNothing ==
    \A n \in Numbers : \A m \in ProbeMessages :
        LET context == LiveContext(n)
            command == parse(m, now)
        IN  (context # NULL /\ context.step = "parsing")
            => LET vs == validateScheduleCommand(sessions, patients, availabilityBlocks,
                             psychologists, command, context.psychologistId, now)
                   vc == validateCancelCommand(sessions, patients, command,
                                               context.psychologistId)
                   fails == \/ command.action = "schedule" /\ ~vs.isValid
                            \/ command.action = "cancel" /\ \A v \in vc : ~v.isValid
               IN  fails => \A o \in processMessage(World, n, m) :
                               /\ o.result.success
                               /\ o.result.response \in {"ValidationErrors", "ConflictMessage"}
                               /\ o.w.redis[n] = redis[n]
                               /\ o.w.sessions = sessions
                               /\ o.w.patients = patients

\* a call in step parsing was answered with the conflict message
C11_ConflictInParsing ==
    /\ result # NULL
    /\ result.response = "ConflictMessage"
    /\ call.loaded = "parsing"
    /\ redis[call.whatsappNumber] # NULL
    /\ redis[call.whatsappNumber].value.step = "parsing"
    /\ redis[call.whatsappNumber].value.data = EmptyObject

\* C12: in step parsing, a view or help command and an unknown command leave
\* the persisted conversation state, the appointments and the patients as
\* they were; the call only returns a response.
C12_ViewHelpUnknownChangeNothing ==
    \A n \in Numbers : \A m \in ProbeMessages :
        LET context == LiveContext(n)
            command == parse(m, now)
        IN  (/\ context # NULL
             /\ context.step = "parsing"
             /\ command.action \in {"view", "help", "unknown"})
            => \A o \in processMessage(World, n, m) :
                 /\ o.result.success
                 /\ o.result.response =
                        (CASE command.action = "view" -> "AgendaView"
                           [] command.action = "help" -> "HelpMessage"
                           [] OTHER -> "UnknownCommandMessage")
                 /\ o.w.redis[n] = redis[n]
                 /\ o.w.sessions = sessions
                 /\ o.w.patients = patients

\* a help command was handled in step parsing and the state is still there
C12_HelpInParsing ==
    /\ result # NULL
    /\ result.response = "HelpMessage"
    /\ call.loaded = "parsing"
    /\ redis[call.whatsappNumber] # NULL
    /\ redis[call.whatsappNumber].value.step = "parsing"

\* C13: every persisted conversation state with step awaiting_confirmation
\* has its pending command set, to schedule or to cancel.
C13_ConfirmationHasPendingCommand ==
    \A n \in Numbers :
        (redis[n] # NULL /\ redis[n].value.step = "confirmation")
        => /\ Has(redis[n].value, "currentCommand")
           /\ redis[n].value.currentCommand \in {"schedule", "cancel"}

\* a confirmation is pending after a registration: the step was set by
\* handlePatientRegistration
C13_ConfirmationAfterRegistration ==
    /\ result # NULL
    /\ result.response = "PatientCreated+ScheduleConfirmation"
    /\ redis[call.whatsappNumber] # NULL
    /\ redis[call.whatsappNumber].value.step = "confirmation"
    /\ redis[call.whatsappNumber].value.currentCommand = "schedule"

\* C14: every persisted conversation state with step
\* awaiting_patient_registration holds in its pending data a patient name
\* and a proposed datetime, and that datetime is within the owner's
\* working hours.
C14_RegistrationHasNameAndDatetime ==
    \A n \in Numbers :
        (redis[n] # NULL /\ redis[n].value.step = "patient_registration")
        => LET data == redis[n].value.data
           IN  /\ Has(data, "patientName")
               /\ Len(data.patientName) > 0
               /\ Has(data, "proposedDatetime")
               /\ isWithinWorkingHours(parseISO(data.proposedDatetime),
                      psychologists[redis[n].value.psychologistId].workingHours)

\* a registration is pending for the unknown patient of a schedule command
C14_RegistrationPending ==
    /\ result # NULL
    /\ result.response = "NewPatientConfirmation"
    /\ redis[call.whatsappNumber] # NULL
    /\ redis[call.whatsappNumber].value.step = "patient_registration"
    /\ redis[call.whatsappNumber].value.data.patientName = W_Bia

\* C15: a call from a conversation key with no state and no resolvable owner
\* returns the welcome (not-registered) response with success, creates no
\* conversation state and changes no psychologist, patient, session or
\* availability block, every time it happens.
C15_UnknownSenderChangesNothing ==
    [][\A n \in Numbers :
         (/\ HandleStep(n)
          /\ redis[n] = NULL
          /\ findPsychologistByWhatsApp(World, n) = NULL)
         => /\ result' = [success |-> TRUE, response |-> "WelcomeMessage"]
            /\ redis' = redis
            /\ patients' = patients
            /\ sessions' = sessions
            /\ psychologists' = psychologists
            /\ availabilityBlocks' = availabilityBlocks]_vars

\* an unknown sender was welcomed while the owner of the other key has a
\* conversation going
C15_Welcomed ==
    /\ result # NULL
    /\ result.response = "WelcomeMessage"
    /\ call.whatsappNumber = "n3"
    /\ redis["n3"] = NULL
    /\ redis["n1"] # NULL

\* what a call leaves behind, the audit log aside
Effect(o, n) ==
    [result |-> o.result, state |-> o.w.redis[n], sessions |-> o.w.sessions,
     patients |-> o.w.patients]

\* C16: the first message from a key with no state and a resolvable owner
\* creates a state in step parsing scoped to that owner, and the call ends
\* exactly as the same message handled on that fresh parsing state.
C16_FirstMessageHandledAsParsing ==
    \A n \in Numbers : \A m \in ProbeMessages :
        LET psychologist == findPsychologistByWhatsApp(World, n)
        IN  (redis[n] = NULL /\ psychologist # NULL)
            => LET l == loadContext(World, n)
                   fresh == createContext(World, n, psychologist.id)
               IN  /\ ~l.done
                   /\ l.loaded = "none"
                   /\ l.context.step = "parsing"
                   /\ l.context.psychologistId = psychologist.id
                   /\ l.context.data = EmptyObject
                   /\ redisGet(l.w, n) = l.context
                   /\ \A o \in processMessage(fresh.w, n, m) : o.loaded = "parsing"
                   /\ {Effect(o, n) : o \in processMessage(World, n, m)}
                        = {Effect(o, n) : o \in processMessage(fresh.w, n, m)}

\* a valid schedule command arrived as first message and the call ended in
\* awaiting_confirmation
C16_FirstMessageScheduled ==
    /\ result # NULL
    /\ result.response = "ScheduleConfirmation"
    /\ call.loaded = "none"
    /\ redis[call.whatsappNumber] # NULL
    /\ redis[call.whatsappNumber].value.step = "confirmation"

LogFaults == {"messageLog.create/incoming", "messageLog.create/response"}

\* failures of the conversation-state store and of the owner, patient and
\* appointment store
CollaboratorFaults == Faults \ LogFaults

ErrorResponses ==
    {"Error:internal", "Error:create_patient", "Error:schedule", "Error:cancel",
     "Error:patient_not_found", "Error:unrecognized_command"}

\* the conversation state persisted under an entry, its TTL aside
StateOf(entry) == IF entry = NULL THEN NULL ELSE entry.value

\* C17: whenever an operation of the conversation-state store or of the
\* owner, patient or appointment store fails during a call, the call returns
\* a result with success = false and an error response.
C17_FailureGivesErrorResult ==
    [][\A n \in Numbers :
         (HandleStep(n) /\ call'.fault \in CollaboratorFaults)
         => /\ ~result'.success
            /\ result'.response \in ErrorResponses]_vars

\* C18: when a store or cache operation fails during a call on a key that
\* has a live conversation state, the persisted state after the call is the
\* persisted state before it.
C18_FailureKeepsState ==
    [][\A n \in Numbers :
         (/\ HandleStep(n)
          /\ call'.fault \in CollaboratorFaults
          /\ LiveContext(n) # NULL)
         => StateOf(redis'[n]) = StateOf(redis[n])]_vars

\* C19: a failure of the audit-log append, for the inbound message or for
\* the response, never changes the outcome of a call: the result (success
\* and response), the resulting conversation state, the sessions and the
\* patients are those of the same call with the append succeeding.
C19_LogFailureChangesNothing ==
    [][\A n \in Numbers :
         (HandleStep(n) /\ call'.fault \in LogFaults)
         => \E o \in processMessage(World, n, call'.message) :
               /\ result' = o.result
               /\ redis' = o.w.redis
               /\ sessions' = o.w.sessions
               /\ patients' = o.w.patients]_vars

\* a confirmed schedule was executed by a call whose response append failed
C19_ScheduledWithoutLog ==
    /\ result # NULL
    /\ call.fault = "messageLog.create/response"
    /\ result.success
    /\ result.response = "ScheduleSuccess"
    /\ redis[call.whatsappNumber] = NULL
    /\ \E s \in Scheduled("psy1") : TRUE

\* C20: a conversation state expires 5 minutes after its last write, create
\* or update: written less than 5 minutes ago it is returned by getContext,
\* written more than 5 minutes ago it is absent.
C20_ExpiresAfterLastWrite ==
    \A n \in Numbers :
        redis[n] # NULL
        => LET lastWrite == redis[n].expireAt - expiryMinutes
           IN  /\ now - lastWrite < expiryMinutes => LiveContext(n) = redis[n].value
               /\ now - lastWrite > expiryMinutes => LiveContext(n) = NULL

----------------------------------------------------------------------------
(* A refusal sent to a conversation that has no state *)

\* C21 as stated: a negative reply to a conversation with no live state
\* raises no error and leaves the conversation-state store, the sessions
\* and the patients exactly as they were.
C21_NegativeOnClearedIsNoOp ==
    \A n \in Numbers :
        LiveContext(n) = NULL
        => \A o \in processMessage(World, n, M_nao) :
              /\ o.result.success
              /\ o.w.redis = redis
              /\ o.w.sessions = sessions
              /\ o.w.patients = patients

\* C21 amended: a negative reply to a conversation with no live state raises
\* no error and leaves the sessions and the patients as they were.  For an
\* unknown sender the state store is left as it was; for a registered owner
\* the call stores a fresh state in step parsing with no pending command and
\* no pending data.  Sending it a second time changes nothing more and gives
\* the same answer.
C21_NegativeOnClearedIsIdempotent ==
    \A n \in Numbers :
        LiveContext(n) = NULL
        => \A o \in processMessage(World, n, M_nao) :
              /\ o.result.success
              /\ o.w.sessions = sessions
              /\ o.w.patients = patients
              /\ IF findPsychologistByWhatsApp(World, n) = NULL
                 THEN o.w.redis = redis
                 ELSE /\ o.w.redis[n] # NULL
                      /\ o.w.redis[n].value.step = "parsing"
                      /\ o.w.redis[n].value.data = EmptyObject
                      /\ ~Has(o.w.redis[n].value, "currentCommand")
                      /\ \A m \in Numbers \ {n} : o.w.redis[m] = redis[m]
              /\ \A o2 \in processMessage(o.w, n, M_nao) :
                    /\ o2.result = o.result
                    /\ o2.w.redis = o.w.redis
                    /\ o2.w.sessions = o.w.sessions
                    /\ o2.w.patients = o.w.patients

\* a refusal arrived on a conversation whose state an executed schedule had
\* deleted: it was answered as an unknown command and a fresh state stored
C21_RefusedOnCleared ==
    /\ result # NULL
    /\ Scheduled("psy1") # {}
    /\ call.whatsappNumber = "n1"
    /\ call.loaded = "none"
    /\ ~call.positive
    /\ result.response = "UnknownCommandMessage"
    /\ redis["n1"] # NULL
    /\ redis["n1"].value.step = "parsing"
    /\ redis["n1"].value.createdAt = toISOString(now)

----------------------------------------------------------------------------
(* validateScheduleCommand *)

\* datetimes a command may carry: before opening, at opening, inside the
\* day, closing time, tomorrow inside the blocked period, the closed day
ProbeDatetimes ==
    {540, 600, 650, 780, MinutesPerDay + 600, 6 * MinutesPerDay + 600}

\* parsed schedule commands: the name may be missing, resolve or not
\* resolve; the datetime may be missing
ProbeCommands ==
    {[action |-> "schedule"], [action |-> "schedule", patient |-> W_Ana]}
    \cup {[action |-> "schedule", datetime |-> d] : d \in ProbeDatetimes}
    \cup {[action |-> "schedule", patient |-> p, datetime |-> d]
          : p \in {W_Ana, W_Bia}, d \in ProbeDatetimes}

ProbeOwners == {"psy1", "psy9"}

\* C22: validateSchedule returns isValid = true exactly when the command
\* has both a patient name and a datetime, the owner exists, the datetime is
\* within the owner's working hours, the datetime is not before now and no
\* conflict is found; whether the patient resolves does not change isValid.
C22_ValidIffAllChecksPass ==
    \A command \in ProbeCommands : \A id \in ProbeOwners :
        LET v == validateScheduleCommand(sessions, patients, availabilityBlocks,
                                         psychologists, command, id, now)
        IN  /\ v.isValid <=>
                 /\ Has(command, "patient")
                 /\ Has(command, "datetime")
                 /\ id \in DOMAIN psychologists
                 /\ isWithinWorkingHours(command.datetime, psychologists[id].workingHours)
                 /\ command.datetime >= now
                 /\ ~checkSchedulingConflicts(sessions, patients, availabilityBlocks,
                        psychologists, command.datetime,
                        psychologists[id].sessionDurationMinutes, id, now).hasConflict
            /\ (Has(command, "patient") /\ command.patient = W_Ana)
               => validateScheduleCommand(sessions, patients, availabilityBlocks,
                      psychologists, [command EXCEPT !.patient = W_Bia], id,
                      now).isValid = v.isValid

\* a command for a name that resolves to no patient was found valid, while
\* another candidate of the same owner has a conflict
C22_ValidWithUnresolvedPatient ==
    /\ LiveContext("n1") # NULL
    /\ LiveContext("n1").step = "patient_registration"
    /\ LET v == validateScheduleCommand(sessions, patients, availabilityBlocks,
                    psychologists,
                    [action |-> "schedule",
                     patient |-> LiveContext("n1").data.patientName,
                     datetime |-> parseISO(LiveContext("n1").data.proposedDatetime)],
                    "psy1", now)
       IN  v.isValid /\ v.patient = NULL
    /\ \E command \in ProbeCommands :
          validateScheduleCommand(sessions, patients, availabilityBlocks,
              psychologists, command, "psy1", now).conflicts.hasConflict

----------------------------------------------------------------------------
(* Working hours *)

\* working-hours tables with the opening and closing minute of each range
\* entry written out
ProbeHours ==
    {[table |-> WorkingHours,
      range |-> [seg |-> <<600, 780>>, ter |-> <<600, 780>>]],
     [table |-> [seg |-> W_0930_1215, qua |-> W_closed, dom |-> W_1000_1300],
      range |-> [seg |-> <<570, 735>>, dom |-> <<600, 780>>]]}

\* times of day around the opening and closing minutes
ProbeTimesOfDay == {0, 569, 570, 599, 600, 650, 734, 735, 779, 780, 1439}

WeekDatetimes == {d * MinutesPerDay + t : d \in 0..6, t \in ProbeTimesOfDay}

\* C23: the working-hours check accepts a datetime exactly when the entry of
\* its weekday is a range (not missing, not closed) and the time of day in
\* minutes since midnight satisfies open <= t < close.
C23_AcceptsIffInsideRange ==
    /\ \A h \in ProbeHours : \A datetime \in WeekDatetimes :
          LET dayName == getDayName(getDay(datetime))
              t == datetime % MinutesPerDay
          IN  isWithinWorkingHours(datetime, h.table)
              <=> /\ dayName \in DOMAIN h.range
                  /\ h.range[dayName][1] <= t
                  /\ t < h.range[dayName][2]
    /\ \A id \in DOMAIN psychologists : \A n \in Numbers :
          (/\ LiveContext(n) # NULL
           /\ LiveContext(n).psychologistId = id
           /\ Has(LiveContext(n).data, "proposedDatetime"))
          => LET t == parseISO(LiveContext(n).data.proposedDatetime) % MinutesPerDay
             IN  600 <= t /\ t < 780

\* a candidate at the opening minute itself was accepted and awaits its
\* confirmation
C23_AcceptedAtOpening ==
    /\ LiveContext("n1") # NULL
    /\ LiveContext("n1").step = "confirmation"
    /\ Has(LiveContext("n1").data, "proposedDatetime")
    /\ parseISO(LiveContext("n1").data.proposedDatetime) = 600
    /\ isWithinWorkingHours(600, psychologists["psy1"].workingHours)
    /\ ~isWithinWorkingHours(780, psychologists["psy1"].workingHours)

\* C24: with respect to working hours a candidate is valid exactly when its
\* whole interval [start, start + duration) lies inside [open, close): one
\* ending at closing time is valid, one starting a minute later is not.
C24_WholeIntervalInsideHours ==
    \A id \in DOMAIN psychologists : \A h \in ProbeHours :
        \A datetime \in {h.range["seg"][2] - psychologists[id].sessionDurationMinutes,
                         h.range["seg"][2] - psychologists[id].sessionDurationMinutes + 1} :
            LET start == datetime
                end == datetime + psychologists[id].sessionDurationMinutes
                open == h.range["seg"][1]
                close == h.range["seg"][2]
            IN  isWithinWorkingHours(datetime, h.table)
                <=> (open <= start /\ end <= close)

----------------------------------------------------------------------------
(* A candidate on a closed day *)

\* Sunday 10:00, a day the owner's working hours mark closed
ClosedDayCommand ==
    [action |-> "schedule", patient |-> W_Ana, datetime |-> 6 * MinutesPerDay + 600]

\* the owner's blocked periods as stored, and with the Sunday blocked too
ProbeBlockTables ==
    {availabilityBlocks,
     availabilityBlocks \cup {[psychologistId |-> "psy1",
                               startTime |-> 6 * MinutesPerDay,
                               endTime |-> 7 * MinutesPerDay]}}

\* C25: for a datetime on a closed day validateSchedule returns isValid =
\* false with the outside-working-hours error and computes no conflict: the
\* result carries hasConflict = false and no alternative slots, and the
\* owner is answered with the validation errors, not the conflict message.
C25_ClosedDayIsNotAConflict ==
    \A B \in ProbeBlockTables :
        LET v == validateScheduleCommand(sessions, patients, B, psychologists,
                                         ClosedDayCommand, "psy1", now)
        IN  /\ ~v.isValid
            /\ \E i \in 1..Len(v.errors) : v.errors[i] = "outside_working_hours"
            /\ ~v.conflicts.hasConflict
            /\ ~Has(v.conflicts, "availableSlots")
            /\ \A n \in Numbers :
                  (/\ LiveContext(n) # NULL
                   /\ LiveContext(n).step = "parsing"
                   /\ LiveContext(n).psychologistId = "psy1")
                  => \A o \in handleScheduleCommand(
                                  [World EXCEPT !.availabilityBlocks = B],
                                  ClosedDayCommand, LiveContext(n), n) :
                        o.result.response = "ValidationErrors"

----------------------------------------------------------------------------
(* The library functions applied to stored tables: patient resolution, the
   free-slot search, the command parser *)

W_Anne == <<"A","n","n","e">>
W_Ane == <<"A","n","e">>
W_ANA == <<"A","N","A">>
W_ana == <<"a","n","a">>

\* rows the patients table may hold besides the two of Init: a second
\* spelling of Ana, and two names as close to each other as to Ana
ExtraPatients ==
    {[id |-> 4, psychologistId |-> "psy1", fullName |-> W_ana],
     [id |-> 8, psychologistId |-> "psy1", fullName |-> W_Anne],
     [id |-> 9, psychologistId |-> "psy1", fullName |-> W_Anna]}

ProbeNames == {W_ANA, W_Anna, W_Ane, W_Bia}

\* rows the sessions table may hold besides psy2's: sessions of psy1 inside
\* working hours, on and off the half-hour grid, one of them cancelled
ExtraSessions ==
    {[id |-> 11, psychologistId |-> "psy1", patientId |-> 1, scheduledAt |-> 600,
      durationMinutes |-> 50, status |-> "scheduled"],
     [id |-> 12, psychologistId |-> "psy1", patientId |-> 1, scheduledAt |-> 690,
      durationMinutes |-> 90, status |-> "scheduled"],
     [id |-> 13, psychologistId |-> "psy1", patientId |-> 1,
      scheduledAt |-> MinutesPerDay + 615, durationMinutes |-> 50,
      status |-> "scheduled"],
     [id |-> 14, psychologistId |-> "psy1", patientId |-> 1, scheduledAt |-> 660,
      durationMinutes |-> 50, status |-> "cancelled"]}

\* the clock: before opening, after opening off the grid, on the grid
ProbeNows == {NowStart, 607, 630}

InitTables ==
    /\ now \in ProbeNows
    /\ \E d \in Durations :
         psychologists =
            [psy1 |-> [whatsappNumber |-> "n1", sessionDurationMinutes |-> d,
                       workingHours |-> WorkingHours],
             psy2 |-> [whatsappNumber |-> "n2", sessionDurationMinutes |-> 50,
                       workingHours |-> WorkingHours]]
    /\ availabilityBlocks = {}
    /\ \E extra \in SUBSET ExtraPatients : \E booked \in SUBSET ExtraSessions :
         /\ extra = {} \/ booked = {}
         /\ patients = {[id |-> 1, psychologistId |-> "psy1", fullName |-> W_Ana],
                        [id |-> 2, psychologistId |-> "psy2", fullName |-> W_Ana]}
                       \cup extra
         /\ sessions = {[id |-> 1, psychologistId |-> "psy2", patientId |-> 2,
                         scheduledAt |-> 630, durationMinutes |-> 50,
                         status |-> "scheduled"]}
                       \cup booked
    /\ messageLog = {}
    /\ redis = [n \in Numbers |-> NULL]
    /\ inflight = [c \in 1..MaxInflight |-> NULL]
    /\ result = NULL
    /\ call = [op |-> "none"]
    /\ faulted = 0
    /\ router = newRouter
    /\ wa = newClient
    /\ nlp = NULL

\* one call of ValidationLayer.findPatientByName
Resolve(name, psychologistId) ==
    /\ result' = [patient |-> findPatientByName(patients, name, psychologistId)]
    /\ call' = [op |-> "findPatientByName", name |-> name,
                psychologistId |-> psychologistId]
    /\ UNCHANGED <<now, psychologists, availabilityBlocks, patients, sessions,
                   messageLog, redis, inflight, faulted, router, wa, nlp>>

\* preferred datetimes: today, tomorrow, Saturday
ProbePreferredDates == {650, MinutesPerDay + 600, 5 * MinutesPerDay + 600}

ProbeDaysToCheck == {2, defaultDaysToCheck}

\* one call of ValidationLayer.findAvailableSlots for the owner's duration
Search(preferredDate, psychologistId, daysToCheck) ==
    LET durationMinutes == IF psychologistId \in DOMAIN psychologists
                           THEN psychologists[psychologistId].sessionDurationMinutes
                           ELSE FallbackDuration
    IN  /\ result' =
              [slots |-> findAvailableSlots(sessions, psychologists, preferredDate,
                             durationMinutes, psychologistId, daysToCheck, now),
               daysScanned |->
                   IF psychologistId \in DOMAIN psychologists
                   THEN scanDays(sessions, psychologists[psychologistId].workingHours,
                                 preferredDate, durationMinutes, psychologistId,
                                 daysToCheck, now, 0, <<>>).daysScanned
                   ELSE 0]
        /\ call' = [op |-> "findAvailableSlots", preferredDate |-> preferredDate,
                    durationMinutes |-> durationMinutes,
                    psychologistId |-> psychologistId, daysToCheck |-> daysToCheck]
        /\ UNCHANGED <<now, psychologists, availabilityBlocks, patients, sessions,
                       messageLog, redis, inflight, faulted, router, wa, nlp>>

W_3102 == <<"3","1","/","0","2">>
W_1503 == <<"1","5","/","0","3">>
W_0_1 == <<"0","/","1">>
W_2359 == <<"2","3",":","5","9">>

\* texts with a date on the calendar, and with dates that are not
ScheduleDateTexts ==
    {<<W_agendar, W_Ana, W_1503, W_14h>>, <<W_agendar, W_Ana, W_3102, W_14h>>,
     <<W_marcar, W_Ana, W_0_1, W_2359>>}

CancelDateTexts == {<<W_cancelar, W_Ana, W_1503>>, <<W_desmarcar, W_Ana, W_3102>>}

BlockTexts ==
    {<<W_bloquear, W_quinta, W_tarde>>, <<W_bloquear, W_terca>>,
     <<W_bloquear, W_na, W_sexta, W_feira, W_noite>>, <<W_bloquear, W_sabado>>}

WeekdayTexts ==
    {<<W_agendar, W_Ana, W_segunda, W_10h>>, <<W_agendar, W_Ana, W_dom, W_14h>>,
     <<W_marcar, W_Ana, W_na, W_sexta, W_feira, W_1120>>}

ProbeTexts ==
    {M_agendar_ana_10h, M_agendar_ana_amanha, M_cancelar_ana, M_ver_agenda, M_ajuda,
     M_nao, M_sim}
    \cup ScheduleDateTexts \cup CancelDateTexts \cup BlockTexts \cup WeekdayTexts

\* one call of CommandParser.parse
Parse(text) ==
    /\ result' = parse(text, now)
    /\ call' = [op |-> "parse", text |-> text]
    /\ UNCHANGED <<now, psychologists, availabilityBlocks, patients, sessions,
                   messageLog, redis, inflight, faulted, router, wa, nlp>>

NextTables ==
    \/ \E name \in ProbeNames : \E id \in {"psy1", "psy2"} : Resolve(name, id)
    \/ \E text \in ProbeTexts : Parse(text)
    \/ \E preferredDate \in ProbePreferredDates : \E id \in {"psy1", "psy9"} :
          \E daysToCheck \in ProbeDaysToCheck : Search(preferredDate, id, daysToCheck)

SpecTables == InitTables /\ [][NextTables]_vars

\* (maxLen - editDistance) / maxLen of the lower-cased names, as a fraction
SimilarityTo(name, p) ==
    calculateStringSimilarity(toLowerCase(name), toLowerCase(p.fullName))

\* C26: patient resolution returns the exact case-insensitive full-name
\* match when one exists; otherwise the owner's patient with the highest
\* similarity, provided it is strictly greater than 0.7, the earliest-listed
\* patient winning ties; and null when no patient exceeds 0.7.
C26_ExactThenBestAboveThreshold ==
    call.op = "findPatientByName"
    => LET name == call.name
           own == {p \in patients : p.psychologistId = call.psychologistId}
           exact == {p \in own : toLowerCase(p.fullName) = toLowerCase(name)}
           above == {p \in own : FracGreater(SimilarityTo(name, p), <<7, 10>>)}
           r == result.patient
       IN  IF exact # {} THEN r \in exact
           ELSE IF above = {} THEN r = NULL
           ELSE /\ r \in above
                /\ \A q \in above :
                      /\ ~FracGreater(SimilarityTo(name, q), SimilarityTo(name, r))
                      /\ ~FracGreater(SimilarityTo(name, r), SimilarityTo(name, q))
                         => r.id <= q.id

\* "Anna" was looked up among patients that hold "Ana" and "Anne", both at
\* similarity 0.75, and no "Anna": the earlier row, "Ana", was returned
C26_TieResolvedToEarliest ==
    /\ call.op = "findPatientByName"
    /\ call.name = W_Anna
    /\ call.psychologistId = "psy1"
    /\ \E p \in patients : p.psychologistId = "psy1" /\ p.fullName = W_Anne
    /\ ~\E p \in patients : p.psychologistId = "psy1" /\ p.fullName = W_Anna
    /\ result.patient # NULL
    /\ result.patient.fullName = W_Ana

----------------------------------------------------------------------------
(* The free-slot search *)

\* the slots of the first k days of the search the last call made
RECURSIVE SlotsOfDays(_)
SlotsOfDays(k) ==
    IF k = 0 THEN <<>>
    ELSE SlotsOfDays(k - 1)
         \o getDayAvailableSlots(sessions, call.preferredDate + (k - 1) * MinutesPerDay,
                call.durationMinutes, call.psychologistId,
                psychologists[call.psychologistId].workingHours, now)

StartOfDay(d) == d - (d % MinutesPerDay)

\* C27: the free-slot search returns at most 6 slots, in chronological scan
\* order, from at most daysToCheck days starting at the candidate's day, and
\* looks at no further day once 6 slots have been collected.
C27_AtMostSixInScanOrder ==
    call.op = "findAvailableSlots"
    => LET slots == result.slots
           scanned == result.daysScanned
       IN  /\ Len(slots) <= 6
           /\ \A i, j \in 1..Len(slots) : i < j => slots[i].start < slots[j].start
           /\ \A i \in 1..Len(slots) :
                 /\ slots[i].start >= StartOfDay(call.preferredDate)
                 /\ slots[i].start < StartOfDay(call.preferredDate)
                                     + call.daysToCheck * MinutesPerDay
           /\ scanned <= call.daysToCheck
           /\ IF call.psychologistId \notin DOMAIN psychologists THEN slots = <<>>
              ELSE /\ slots = SubSeq(SlotsOfDays(scanned), 1,
                                     IF Len(SlotsOfDays(scanned)) < 6
                                     THEN Len(SlotsOfDays(scanned)) ELSE 6)
                   /\ scanned < call.daysToCheck => Len(SlotsOfDays(scanned)) >= 6
                   /\ \A k \in 0..(scanned - 1) : Len(SlotsOfDays(k)) < 6

\* a search over 7 days stopped after the second day with more than 6 slots
\* collected and returned the first 6
C27_StoppedAtSix ==
    /\ call.op = "findAvailableSlots"
    /\ call.psychologistId = "psy1"
    /\ call.daysToCheck = defaultDaysToCheck
    /\ result.daysScanned = 2
    /\ Len(SlotsOfDays(2)) > 6
    /\ Len(result.slots) = 6
    /\ \E s \in sessions : s.psychologistId = "psy1" /\ s.status = "scheduled"

----------------------------------------------------------------------------
(* Cancelling when there is nothing to cancel *)

CancelMessages == {M_cancelar_ana, M_cancelar_bia}

\* C29: a cancel command for a patient that resolves, with no scheduled
\* session of that patient on the given date, yields isValid = false with
\* the no-session-found error; no session changes status and the
\* conversation remains in step parsing.
C29_NothingToCancel ==
    \A n \in Numbers : \A m \in CancelMessages :
        LET command == parse(m, now)
            owner == findPsychologistByWhatsApp(World, n)
            context == LiveContext(n)
            patient == findPatientByName(patients, command.patient, owner.id)
        IN  (/\ owner # NULL
             /\ context = NULL \/ context.step = "parsing"
             /\ patient # NULL
             /\ ~\E s \in Scheduled(owner.id) :
                    /\ s.patientId = patient.id
                    /\ StartOfDay(s.scheduledAt) = StartOfDay(command.datetime))
            => /\ \A v \in validateCancelCommand(sessions, patients, command, owner.id) :
                     ~v.isValid /\ v.errors = <<"no_session_found">>
               /\ \A o \in processMessage(World, n, m) :
                     /\ o.result.response = "ValidationErrors"
                     /\ o.w.sessions = sessions
                     /\ o.w.redis[n] # NULL
                     /\ o.w.redis[n].value.step = "parsing"

\* the owner's only session was cancelled, and a second cancel for the same
\* patient and day was answered with the validation errors
C29_CancelledTwice ==
    /\ result # NULL
    /\ now = NowStart
    /\ call.whatsappNumber = "n1"
    /\ result.response = "ValidationErrors"
    /\ Scheduled("psy1") = {}
    /\ \E s \in sessions : s.psychologistId = "psy1" /\ s.status = "cancelled"
    /\ LiveContext("n1") # NULL
    /\ LiveContext("n1").step = "parsing"

----------------------------------------------------------------------------
(* The parser's confidence *)

\* C30: for every parse result, action = unknown implies confidence = 0,
\* and for every other action the confidence is the constant of its pattern
\* family, depending only on whether a datetime was resolved: schedule
\* 0.9 / 0.3, cancel 0.85 / 0.3, view 0.95, block 0.8 / 0.3, help 1.0.  A
\* date that is not on the calendar gets the confidence of one that is.
C30_ConfidenceByFamily ==
    call.op = "parse"
    => /\ result.action \in {"schedule", "cancel", "view", "block", "help", "unknown"}
       /\ result.action = "unknown" => result.confidence = 0
       /\ result.action = "schedule"
          => result.confidence = IF Has(result, "datetime") THEN 90 ELSE 30
       /\ result.action = "cancel"
          => result.confidence = IF Has(result, "datetime") THEN 85 ELSE 30
       /\ result.action = "view" => result.confidence = 95
       /\ result.action = "block"
          => result.confidence = IF Has(result, "datetime") THEN 80 ELSE 30
       /\ result.action = "help" => result.confidence = 100
       /\ call.text \in ScheduleDateTexts
          => result.action = "schedule" /\ result.confidence = 90
       /\ call.text \in CancelDateTexts
          => result.action = "cancel" /\ result.confidence = 85
       /\ call.text \in BlockTexts
          => IF call.text = <<W_bloquear, W_sabado>>
             THEN result.action = "unknown"
             ELSE result.action = "block" /\ result.confidence = 80

\* "agendar Ana 31/02 14h" was parsed as a schedule command for 3 March
\* 14:00 with confidence 0.9
C30_ParsedImpossibleDate ==
    /\ call.op = "parse"
    /\ call.text = <<W_agendar, W_Ana, W_3102, W_14h>>
    /\ result.action = "schedule"
    /\ result.datetime = 61 * MinutesPerDay + 14 * 60
    /\ result.confidence = 90

----------------------------------------------------------------------------
(* C31: weekday references *)

\* a moment of each day of the week, early and late in the day
WeekdayNows ==
    {d * MinutesPerDay + m : d \in 0..6, m \in {0, NowStart, MinutesPerDay - 1}}

\* the days from a day of the week to the next occurrence of another
DaysAhead(targetDay, currentDay) == ((targetDay - currentDay + 6) % 7) + 1

ResolvesWeekday(command, e, t) ==
    /\ command.action = "schedule"
    /\ Has(command, "datetime")
    /\ command.datetime =
          (t - (t % MinutesPerDay)) + DaysAhead(e[2], getDay(t)) * MinutesPerDay + 600
    /\ command.datetime \div MinutesPerDay > t \div MinutesPerDay
    /\ (e[2] = getDay(t)) =>
          command.datetime \div MinutesPerDay = (t \div MinutesPerDay) + 7

\* every weekday word on every current weekday
AllWeekdaysResolve ==
    \A t \in WeekdayNows : \A e \in weekdayMap :
        /\ DaysAhead(e[2], getDay(t)) \in 1..7
        /\ (DaysAhead(e[2], getDay(t)) - (e[2] - getDay(t))) % 7 = 0
        /\ ResolvesWeekday(parse(<<W_agendar, W_Ana, e[1], W_10h>>, t), e, t)
        /\ ResolvesWeekday(parse(<<W_marcar, W_Ana, W_na, e[1], W_feira, W_10h>>, t), e, t)

\* C31: for every current weekday c and referenced weekday t the parser
\* resolves the reference to today + d days with d in 1..7 and d congruent
\* to t - c modulo 7: never today, and 7 days ahead when t = c
C31_NextOccurrence ==
    /\ AllWeekdaysResolve
    /\ (Has(call, "op") /\ call.op = "parse" /\ call.text \in WeekdayTexts) =>
          \E e \in weekdayMap :
              /\ \E k \in 1..Len(call.text) : call.text[k] = e[1]
              /\ result.action = "schedule"
              /\ Has(result, "datetime")
              /\ result.datetime \div MinutesPerDay =
                    (now \div MinutesPerDay) + DaysAhead(e[2], getDay(now))

\* "agendar Ana segunda 10h" parsed on a Monday: the Monday after
C31_SameWeekdayNextWeek ==
    /\ Has(call, "op") /\ call.op = "parse"
    /\ call.text = <<W_agendar, W_Ana, W_segunda, W_10h>>
    /\ getDay(now) = 1
    /\ result.datetime = (now - (now % MinutesPerDay)) + 7 * MinutesPerDay + 600

----------------------------------------------------------------------------
(* C36: the alternatives offered after a conflict *)

\* the conflict check of psy1 for a candidate start, on the stored tables
ConflictsAt(datetime) ==
    checkSchedulingConflicts(sessions, patients, availabilityBlocks, psychologists,
        datetime, psychologists["psy1"].sessionDurationMinutes, "psy1", now)

SlotStarts(conflicts) ==
    {conflicts.availableSlots[k].start : k \in 1..Len(conflicts.availableSlots)}

\* C36: every alternative slot returned with a conflict is itself bookable:
\* checked as a candidate of the same duration against the same tables, it
\* has neither a session conflict nor a blocked-period conflict
C36_AlternativesAreBookable ==
    \A datetime \in {600, 650} :
        ConflictsAt(datetime).hasConflict =>
            \A start \in SlotStarts(ConflictsAt(datetime)) : ~ConflictsAt(start).hasConflict

----------------------------------------------------------------------------
(* C35: a confirmation sent again after a failed clear *)

\* C35: a confirmed schedule command creates at most one appointment: when
\* the insert succeeded and the clear of the conversation state failed, the
\* confirmation sent again inserts no second appointment for the same
\* patient and datetime
C35_ResendCreatesNoSecond ==
    [][\A s \in sessions' \ sessions :
          ~\E r \in sessions :
              /\ r.psychologistId = s.psychologistId
              /\ r.patientId = s.patientId
              /\ r.scheduledAt = s.scheduledAt
              /\ r.status = "scheduled"]_vars

----------------------------------------------------------------------------
(* C38: what is persisted when a confirmation is asked for *)

ConfirmationRequests ==
    [ScheduleConfirmation |-> "schedule", CancelConfirmation |-> "cancel"]

\* the entry of the number holds a live confirmation state for the command
AwaitsConfirmationOf(entry, t, command) ==
    /\ entry # NULL
    /\ t < entry.expireAt
    /\ entry.value.step = "confirmation"
    /\ Has(entry.value, "currentCommand")
    /\ entry.value.currentCommand = command
    /\ Has(entry.value.data, "patientName")
    /\ Has(entry.value.data, "proposedDatetime")

\* C38: whenever a call returns a response that asks to confirm a schedule
\* or a cancel, the conversation state persisted at the return is in step
\* confirmation with the matching command and its data, also when the state
\* expired or was deleted between the call's load and its update
C38_ConfirmationRequestIsPersisted ==
    [][\A c \in 1..MaxInflight :
          (/\ inflight[c] # NULL
           /\ inflight'[c] = NULL
           /\ result'.response \in DOMAIN ConfirmationRequests)
          => AwaitsConfirmationOf(redis'[inflight[c].whatsappNumber], now',
                                  ConfirmationRequests[result'.response])]_vars

\* ---------------------------------------------------------------------------
\* The Go NLP service (internal/nlp)
\* ---------------------------------------------------------------------------

\* A Go string as runs of one character each; a character has the name of its
\* code point, and UTF-8 gives it one or two bytes.
Run(c, n) == [c |-> c, n |-> n]

Utf8Bytes == [a |-> 1, a_tilde |-> 2, space |-> 1, tab |-> 1, newline |-> 1, nbsp |-> 2]

\* unicode.IsSpace
IsSpace(c) == c \in {"space", "tab", "newline", "nbsp"}

\* len(text): the number of bytes
RECURSIVE len(_)
len(text) ==
    IF text = <<>> THEN 0
    ELSE Utf8Bytes[Head(text).c] * Head(text).n + len(Tail(text))

\* utf8.RuneCountInString(text): the number of characters
RECURSIVE RuneCount(_)
RuneCount(text) ==
    IF text = <<>> THEN 0 ELSE Head(text).n + RuneCount(Tail(text))

RECURSIVE TrimLeft(_)
TrimLeft(text) ==
    IF text # <<>> /\ IsSpace(Head(text).c) THEN TrimLeft(Tail(text)) ELSE text

RECURSIVE TrimRight(_)
TrimRight(text) ==
    IF text # <<>> /\ IsSpace(text[Len(text)].c)
    THEN TrimRight(SubSeq(text, 1, Len(text) - 1))
    ELSE text

\* variant: the text as given, nothing trimmed
TrimSpace_asGiven(text) == text

\* strings.TrimSpace
TrimSpace(text) == TrimRight(TrimLeft(text))

ConfidenceThreshold == 70     \* 0.7, in hundredths
MaxTextLength == 400

\* what the two calls of the inference API can answer; confidences in hundredths
IntentAnswers ==
    {[err |-> TRUE]}
    \cup {[err |-> FALSE, Intent |-> i, Confidence |-> c] :
            i \in {"schedule_appointment", "unknown"}, c \in {69, 70}}

EntityAnswers ==
    {[err |-> TRUE],
     [err |-> FALSE, entities |-> <<>>],
     [err |-> FALSE, entities |-> <<[Type |-> "phone", Confidence |-> 95]>>],
     [err |-> FALSE,
      entities |-> <<[Type |-> "patient_name", Confidence |-> 69],
                     [Type |-> "datetime", Confidence |-> 70]>>]}

\* the entities at or above the threshold, in order
RECURSIVE filterEntities(_)
filterEntities(entities) ==
    IF entities = <<>> THEN <<>>
    ELSE IF Head(entities).Confidence >= ConfidenceThreshold
         THEN <<Head(entities)>> \o filterEntities(Tail(entities))
         ELSE filterEntities(Tail(entities))

\* service.Process on the trimmed text: what it returns and how many calls
\* of the inference API it made
processTrimmed(text, intentResult, entities) ==
    IF text = <<>>
    THEN [result |-> NULL, err |-> "ErrInvalidInput", apiCalls |-> 0]
    ELSE IF len(text) > MaxTextLength
    THEN [result |-> NULL, err |-> "ErrTextTooLong", apiCalls |-> 0]
    ELSE IF intentResult.err
    THEN [result |-> NULL, err |-> "ErrAPIFailure", apiCalls |-> 1]
    ELSE IF entities.err
    THEN [result |-> NULL, err |-> "ErrAPIFailure", apiCalls |-> 2]
    ELSE [result |-> [Intent |-> [Intent |-> intentResult.Intent,
                                  Confidence |-> intentResult.Confidence],
                      Entities |-> filterEntities(entities.entities),
                      LowConfidence |-> intentResult.Confidence < ConfidenceThreshold],
          err |-> "nil", apiCalls |-> 2]

\* service.Process
Process(text, intentResult, entities) ==
    processTrimmed(TrimSpace(text), intentResult, entities)

\* the texts given to Process
NlpTexts ==
    {<<>>,
     <<Run("space", 3), Run("tab", 1), Run("newline", 1), Run("space", 2)>>,
     <<Run("nbsp", 1)>>,
     <<Run("a", 400)>>,
     <<Run("a", 401)>>,
     <<Run("space", 2), Run("a", 400), Run("newline", 1)>>,
     <<Run("tab", 1), Run("a", 401), Run("space", 1)>>,
     <<Run("a_tilde", 200)>>,
     <<Run("a_tilde", 201)>>,
     <<Run("a", 2), Run("space", 1), Run("a", 3)>>,
     <<Run("a", 1)>>,
     <<Run("a", 399)>>,
     <<Run("a_tilde", 1), Run("a", 398)>>,
     <<Run("nbsp", 1), Run("a", 5), Run("tab", 1)>>}

\* one call of Process, start to return
NlpProcess(text, intentResult, entities) ==
    /\ nlp' = [text |-> text] @@ Process(text, intentResult, entities)
    /\ UNCHANGED <<now, psychologists, availabilityBlocks, patients, sessions,
                   messageLog, redis, inflight, result, call, faulted, router, wa>>

\* ---------------------------------------------------------------------------
\* The Go WhatsApp client (internal/whatsapp)
\* ---------------------------------------------------------------------------

\* toLower, on bytes: the ASCII capitals only
toLower(b) == IF b \in UpperSet THEN LowerOf[b] ELSE b

containsHelper(s, substr) ==
    \E i \in 0..(Len(s) - Len(substr)) :
        \A j \in 1..Len(substr) : toLower(s[i + j]) = toLower(substr[j])

\* contains: substr occurs in s, letter case aside
contains(s, substr) ==
    Len(s) >= Len(substr)
    /\ (s = substr \/ (Len(s) > Len(substr) /\ containsHelper(s, substr)))

protocolPatterns ==
    {<<"4","0","1">>, <<"4","0","3">>,
     <<"b","a","n","n","e","d">>,
     <<"l","o","g","g","e","d"," ","o","u","t">>,
     <<"s","t","r","e","a","m"," ","e","r","r","o","r">>}

\* an error value: the sentinel it wraps (errors.Is) and its text (Error())
wrapNetworkError(err, msg) ==
    [is |-> "ErrNetwork", text |-> msg \o <<":"," ">> \o <<"n","e","t","w","o","r","k"," ","e","r","r","o","r">> \o <<":"," ">> \o err]

wrapProtocolError(err, msg) ==
    [is |-> "ErrProtocol", text |-> msg \o <<":"," ">> \o <<"p","r","o","t","o","c","o","l"," ","e","r","r","o","r">> \o <<":"," ">> \o err]

\* variant: the wrapped sentinel alone decides
isProtocolError_sentinelOnly(err) == err.is \in {"ErrProtocol", "ErrAuth"}

isProtocolError(err) ==
    \/ err.is \in {"ErrProtocol", "ErrAuth"}
    \/ \E pattern \in protocolPatterns : contains(err.text, pattern)

\* what the operating system, the store or the socket reports when a step of
\* Connect fails
Causes == {<<"E","O","F">>, <<"H","T","T","P"," ","4","0","3">>, <<"L","o","g","g","e","d"," ","O","u","t">>}

\* Client.Connect: its error, or nil with the socket connected
ConnectOutcomes ==
    {[err |-> wrapNetworkError(cause, <<"f","a","i","l","e","d"," ","t","o"," ","c","r","e","a","t","e"," ","s","e","s","s","i","o","n"," ","d","i","r">>)] : cause \in {<<"E","O","F">>}}
    \cup {[err |-> wrapProtocolError(cause, <<"f","a","i","l","e","d"," ","t","o"," ","g","e","t"," ","d","e","v","i","c","e">>)] : cause \in {<<"E","O","F">>}}
    \cup {[err |-> wrapNetworkError(cause, <<"f","a","i","l","e","d"," ","t","o"," ","c","o","n","n","e","c","t">>)] : cause \in Causes}
    \cup {[err |-> NULL]}

\* variant: one attempt more than the limit
forCondition_inclusive(i, max) == i <= max

\* Reconnect's loop condition
forCondition(i, max) == i < max

\* WA_MAX_RETRIES as configured
RetryLimits == {0, 1, 3}

Loops == 1..MaxLoops
Running(loop) == loop.pc \in {"loop", "connected"}

\* eventHandler on *events.Disconnected: the socket is gone and a goroutine
\* running Reconnect starts
Disconnected(l) ==
    /\ wa.connected
    /\ ~Running(wa.loops[l])
    /\ \A k \in Loops : k < l => Running(wa.loops[k])
    /\ wa' = [wa EXCEPT !.connected = FALSE,
                        !.loops[l] = [pc |-> "loop", i |-> 0, attempts |-> <<>>,
                                      returned |-> [kind |-> "none"]]]
    /\ UNCHANGED <<now, psychologists, availabilityBlocks, patients, sessions,
                   messageLog, redis, inflight, result, call, faulted, router, nlp>>

\* Reconnect, one pass of the loop: Disconnect, then Connect up to the point
\* where it fails or the socket is connected; on a failure, the rest of the
\* pass as well (return on a protocol error, else sleep and count)
Attempt(l, outcome) ==
    /\ wa.loops[l].pc = "loop"
    /\ forCondition(wa.loops[l].i, wa.WAMaxRetries)
    /\ LET tried == [wa.loops[l] EXCEPT !.attempts = Append(@, outcome.err)]
       IN  wa' = IF outcome.err = NULL
                 THEN [wa EXCEPT !.connected = TRUE,
                                 !.loops[l] = [tried EXCEPT !.pc = "connected"]]
                 ELSE IF isProtocolError(outcome.err)
                 THEN [wa EXCEPT !.connected = FALSE,
                                 !.loops[l] = [tried EXCEPT !.pc = "done",
                                                            !.returned = [kind |-> "error", err |-> outcome.err]]]
                 ELSE [wa EXCEPT !.connected = FALSE,
                                 !.loops[l] = [tried EXCEPT !.i = @ + 1]]
    /\ UNCHANGED <<now, psychologists, availabilityBlocks, patients, sessions,
                   messageLog, redis, inflight, result, call, faulted, router, nlp>>

\* Connect returns nil (the QR channel has closed, or the session existed),
\* and Reconnect returns nil
ReturnNil(l) ==
    /\ wa.loops[l].pc = "connected"
    /\ wa' = [wa EXCEPT !.loops[l].pc = "done", !.loops[l].returned = [kind |-> "nil"]]
    /\ UNCHANGED <<now, psychologists, availabilityBlocks, patients, sessions,
                   messageLog, redis, inflight, result, call, faulted, router, nlp>>

\* the loop condition fails: Reconnect returns its own error
GiveUp(l) ==
    /\ wa.loops[l].pc = "loop"
    /\ ~forCondition(wa.loops[l].i, wa.WAMaxRetries)
    /\ wa' = [wa EXCEPT !.loops[l].pc = "done",
                        !.loops[l].returned = [kind |-> "reconnect failed"]]
    /\ UNCHANGED <<now, psychologists, availabilityBlocks, patients, sessions,
                   messageLog, redis, inflight, result, call, faulted, router, nlp>>

NextNlp ==
    \E text \in NlpTexts : \E intentResult \in IntentAnswers :
        \E entities \in EntityAnswers : NlpProcess(text, intentResult, entities)

\* the Go program alone: the Node backend holds nothing and does nothing
InitIdle ==
    /\ now = NowStart
    /\ psychologists = <<>>
    /\ availabilityBlocks = {}
    /\ patients = {}
    /\ sessions = {}
    /\ messageLog = {}
    /\ redis = [n \in Numbers |-> NULL]
    /\ inflight = [c \in 1..MaxInflight |-> NULL]
    /\ result = NULL
    /\ call = [op |-> "none"]
    /\ faulted = 0
    /\ router = newRouter
    /\ nlp = NULL

InitGo == InitIdle /\ \E max \in RetryLimits : wa = [newClient EXCEPT !.WAMaxRetries = max]

InitNlp == InitIdle /\ wa = newClient

NextGo ==
    \/ \E l \in Loops : Disconnected(l)
    \/ \E l \in Loops : \E outcome \in ConnectOutcomes : Attempt(l, outcome)
    \/ \E l \in Loops : ReturnNil(l)
    \/ \E l \in Loops : GiveUp(l)

SpecGo == InitGo /\ [][NextGo]_vars

SpecNlp == InitNlp /\ [][NextNlp]_vars

\* ---------------------------------------------------------------------------
\* C32: Process rejects a text that is empty once trimmed with ErrInvalidInput
\* and a trimmed text longer than MaxTextLength with ErrTextTooLong, in both
\* cases with no result and before any call of the inference API. The length
\* is the one Process measures, len: bytes. A text of more than MaxTextLength
\* characters has more than MaxTextLength bytes.
\* ---------------------------------------------------------------------------
C32_RejectsBeforeInference ==
    nlp # NULL =>
        /\ TrimSpace(nlp.text) = <<>> =>
              nlp.err = "ErrInvalidInput" /\ nlp.result = NULL /\ nlp.apiCalls = 0
        /\ len(TrimSpace(nlp.text)) > MaxTextLength =>
              nlp.err = "ErrTextTooLong" /\ nlp.result = NULL /\ nlp.apiCalls = 0
        /\ RuneCount(TrimSpace(nlp.text)) > MaxTextLength =>
              nlp.err = "ErrTextTooLong"
        /\ (\A i \in 1..Len(nlp.text) : IsSpace(nlp.text[i].c)) =>
              nlp.err = "ErrInvalidInput"

\* a text of 401 bytes between white space was rejected as too long
C32_PaddedTextTooLong ==
    /\ nlp # NULL
    /\ nlp.text # TrimSpace(nlp.text)
    /\ len(TrimSpace(nlp.text)) = MaxTextLength + 1
    /\ nlp.err = "ErrTextTooLong"
    /\ nlp.result = NULL
    /\ nlp.apiCalls = 0

\* ---------------------------------------------------------------------------
\* C33: Reconnect ends after at most WAMaxRetries attempts: nil at the first
\* Connect that succeeds, the error at once when Connect fails with a protocol
\* error, and the reconnect-failed error once WAMaxRetries attempts have
\* failed with network errors.
\* ---------------------------------------------------------------------------
NetworkFailure(err) == err # NULL /\ ~isProtocolError(err)

LoopStep(l) == (\E outcome \in ConnectOutcomes : Attempt(l, outcome)) \/ ReturnNil(l) \/ GiveUp(l)

ReconnectAsClaimed(l) ==
    LET loop == wa.loops[l]
        n == Len(loop.attempts)
        last == loop.attempts[n]
    IN  /\ n <= wa.WAMaxRetries
        /\ \A k \in 1..(n - 1) : NetworkFailure(loop.attempts[k])
        /\ loop.returned.kind = "nil" <=> (loop.pc = "done" /\ n > 0 /\ last = NULL)
        /\ (n > 0 /\ last = NULL) => loop.pc \in {"connected", "done"}
        /\ loop.returned.kind = "error" <=>
              (n > 0 /\ last # NULL /\ isProtocolError(last))
        /\ loop.returned.kind = "error" => loop.pc = "done" /\ loop.returned.err = last
        /\ loop.returned.kind = "reconnect failed" <=>
              /\ loop.pc = "done"
              /\ n = wa.WAMaxRetries
              /\ \A k \in 1..n : NetworkFailure(loop.attempts[k])
        /\ loop.pc = "done" <=> loop.returned.kind # "none"
        /\ Running(loop) => ENABLED LoopStep(l)

C33_ReconnectIsBounded == \A l \in Loops : ReconnectAsClaimed(l)

\* with three retries configured, a loop gave up after three network failures
C33_GaveUpAfterAllRetries ==
    /\ wa.WAMaxRetries = 3
    /\ \E l \in Loops :
         /\ wa.loops[l].returned.kind = "reconnect failed"
         /\ Len(wa.loops[l].attempts) = 3

\* ---------------------------------------------------------------------------
\* C39: at most one Reconnect loop runs at any time.
\* ---------------------------------------------------------------------------
C39_OneReconnectLoop == Cardinality({l \in Loops : Running(wa.loops[l])}) <= 1

\* ---------------------------------------------------------------------------
\* WhatsAppMessageRouter
\* ---------------------------------------------------------------------------

M_agendar_ana_segunda == <<W_agendar, W_Ana, W_segunda, W_10h>>

\* message.id as the client fills it: the id WhatsApp gave, or '' for none
WaIds == {"A1", ""}

\* messageTimestamp as WhatsApp gives it, in seconds, or Date.now() for none;
\* read as milliseconds where the queue is cleaned up
Timestamps(t) == {t \div 1000, t}

RouterBodies == {M_agendar_ana_segunda, M_sim}

MaxRetryCount == 3

\* queueItem && queueItem.retryCount < 3
retriesAvailable(queueItem) ==
    queueItem # NULL /\ queueItem.retryCount < MaxRetryCount

\* messageQueue.find(item => item.message.id === message.id): the position
\* of the first such item, 0 for none
findInQueue(messageQueue, id) ==
    IF \E k \in 1..Len(messageQueue) : messageQueue[k].id = id
    THEN CHOOSE k \in 1..Len(messageQueue) :
            /\ messageQueue[k].id = id
            /\ \A j \in 1..(k - 1) : messageQueue[j].id # id
    ELSE 0

\* the catch block of processMessageForPsychologist
onProcessingError(r, message) ==
    LET k == findInQueue(r.messageQueue, message.id)
        queueItem == IF k = 0 THEN NULL ELSE r.messageQueue[k]
    IN  IF retriesAvailable(queueItem)
        THEN [r EXCEPT !.messageQueue[k].retryCount = @ + 1,
                       !.timers = @ \cup {message}]
        ELSE [r EXCEPT !.notices[message.key] = @ + 1]

\* processMessageForPsychologist on the router as r: the core handles the
\* text and the reply is sent; sent tells whether whatsappClient.sendMessage
\* went through
processMessageForPsychologist(r, message, sent) ==
    \E o \in processMessage(World, message.from, message.body) :
        /\ Cardinality(o.w.sessions) <= MaxSessions
        /\ patients' = o.w.patients
        /\ sessions' = o.w.sessions
        /\ messageLog' = o.w.messageLog
        /\ redis' = o.w.redis
        /\ result' = o.result
        /\ call' = [whatsappNumber |-> message.from, loaded |-> o.loaded,
                    positive |-> FALSE, fault |-> "none"]
        /\ LET ran == [r EXCEPT !.runs[message.key] = @ + 1]
           IN  router' = IF sent THEN ran ELSE onProcessingError(ran, message)
        /\ UNCHANGED <<now, psychologists, availabilityBlocks, inflight, faulted, wa, nlp>>

\* routeMessage for one inbound message, to the end of its first processing
Route(message, isGroup, sent) ==
    /\ message.key \notin router.delivered
    /\ LET arrived == [router EXCEPT !.delivered = @ \cup {message.key}]
       IN  IF isGroup \/ message.from \notin router.psychologistMappings
           THEN /\ router' = arrived
                /\ UNCHANGED <<now, psychologists, availabilityBlocks, patients,
                               sessions, messageLog, redis, inflight, result, call,
                               faulted, wa, nlp>>
           ELSE processMessageForPsychologist(
                    [arrived EXCEPT !.messageQueue =
                        Append(@, [id |-> message.id, retryCount |-> 0,
                                   timestamp |-> message.timestamp])],
                    message, sent)

\* a timer set by the catch block fires
Retry(message, sent) ==
    /\ message \in router.timers
    /\ processMessageForPsychologist([router EXCEPT !.timers = @ \ {message}],
                                     message, sent)

FiveMinutes == 5

\* the interval of startQueueProcessor fires: processQueue
ProcessQueue ==
    /\ Len(router.messageQueue) > 0
    /\ LET fiveMinutesAgo == now - FiveMinutes
       IN  router' = [router EXCEPT !.messageQueue =
                        SelectSeq(@, LAMBDA item : item.timestamp > fiveMinutesAgo)]
    /\ UNCHANGED <<now, psychologists, availabilityBlocks, patients, sessions,
                   messageLog, redis, inflight, result, call, faulted, wa, nlp>>

InboundMessages ==
    {[key |-> key, id |-> id, from |-> from, body |-> body, timestamp |-> timestamp] :
        key \in Deliveries, id \in WaIds, from \in Numbers, body \in RouterBodies,
        timestamp \in Timestamps(now)}

NextRouter ==
    \/ Tick
    \/ \E message \in InboundMessages : \E isGroup \in BOOLEAN : \E sent \in BOOLEAN :
         Route(message, isGroup, sent)
    \/ \E message \in router.timers : \E sent \in BOOLEAN : Retry(message, sent)
    \/ ProcessQueue

InitRouter == Init /\ psychologists.psy1.sessionDurationMinutes = 50

SpecRouter == InitRouter /\ [][NextRouter]_vars

\* ---------------------------------------------------------------------------
\* C34: an inbound message whose processing or reply fails is processed again
\* at most 3 times; once a could-not-process notice has been issued for it,
\* there is one such notice and no retry of it is pending.
\* ---------------------------------------------------------------------------
C34_AtMostThreeRetries ==
    \A key \in Deliveries :
        /\ router.runs[key] <= 1 + MaxRetryCount
        /\ router.notices[key] <= 1
        /\ router.notices[key] = 1 => ~\E message \in router.timers : message.key = key

\* ---------------------------------------------------------------------------
\* C37: an appointment is created or cancelled only after two inbound
\* messages have reached the core: a retry of the message that carries the
\* command never confirms it.
\* ---------------------------------------------------------------------------
C37_RetryNeverConfirms ==
    [][sessions' # sessions => Cardinality(router'.delivered) >= 2]_vars

============================================================================
